---- MODULE Spec2Model ----
(***************************************************************************)
(* Aave V3 (Base) subgraph mappings: the entity store written by the six   *)
(* handlers of src/src/pool.ts (handleSupply, handleWithdraw,              *)
(* handleBorrow, handleRepay, handleReserveDataUpdated, handleBlock), the  *)
(* snapshot updates they call, and the helpers of src/src/helpers.ts and   *)
(* src/src/pricing.ts.                                                     *)
(*                                                                         *)
(* Numbers.  BigInt and BigDecimal values are exact: a number is the       *)
(* record [n, d, e] standing for (n / d) * 10^e, kept in canonical form    *)
(* (d > 0 coprime to n and to 10, n not a multiple of 10, zero as          *)
(* [0, 1, 0]), so that equal numbers are equal records and 10^27, 10^18    *)
(* and 10^8 are held without being written out.  graph-node rounds a       *)
(* BigDecimal to 34 significant digits; that rounding is not modelled:     *)
(* sums, products and quotients are the exact rationals.  Timestamps and   *)
(* block numbers are plain integers.                                       *)
(*                                                                         *)
(* Entities.  Each entity type is a function from the ids that exist in    *)
(* the store to the entity's record; load(id) == null is id \notin DOMAIN. *)
(* An entity object held by a handler is a record value; save() writes it  *)
(* into the store.  Operators that read or write the store take the whole  *)
(* store record st and return the new one, with the object they worked on  *)
(* under e where the caller keeps using it.                                *)
(***************************************************************************)
EXTENDS Integers, Sequences, FiniteSets, TLC

VARIABLES protocol, markets, tokens, users, positions, transactions,
          hourlySnapshots, dailySnapshots, dailyActiveUsers,
          trace, lastOp, lastEvent, lastEnv, steps

vars == <<protocol, markets, tokens, users, positions, transactions,
          hourlySnapshots, dailySnapshots, dailyActiveUsers,
          trace, lastOp, lastEvent, lastEnv, steps>>

\* Number of handler invocations explored.
MaxEvents == 2

---------------------------------------------------------------------------
(* BigInt / BigDecimal *)

Abs(x) == IF x < 0 THEN -x ELSE x

Min(a, b) == IF a < b THEN a ELSE b

RECURSIVE Gcd(_, _)
Gcd(a, b) == IF b = 0 THEN a ELSE Gcd(b, a % b)

RECURSIVE Pow10(_)
Pow10(k) == IF k = 0 THEN 1 ELSE 10 * Pow10(k - 1)

RECURSIVE Canon(_, _, _)
Canon(n, d, e) ==
  IF d % 2 = 0 THEN Canon(n * 5, d \div 2, e - 1)
  ELSE IF d % 5 = 0 THEN Canon(n * 2, d \div 5, e - 1)
  ELSE IF n % 10 = 0 THEN Canon(n \div 10, d, e + 1)
  ELSE [n |-> n, d |-> d, e |-> e]

\* (n / d) * 10^e in canonical form, d > 0.
Norm(n, d, e) ==
  IF n = 0 THEN [n |-> 0, d |-> 1, e |-> 0]
  ELSE LET g == Gcd(Abs(n), d) IN Canon(n \div g, d \div g, e)

\* BigInt.fromI32(n) times 10^e; BigInt.toBigDecimal() is the identity on it.
BI(n, e) == Norm(n, 1, e)

plus(a, b) ==
  IF a.n = 0 THEN b
  ELSE IF b.n = 0 THEN a
  ELSE LET e == Min(a.e, b.e)
           g == Gcd(a.d, b.d)
       IN Norm(a.n * Pow10(a.e - e) * (b.d \div g) + b.n * Pow10(b.e - e) * (a.d \div g),
               (a.d \div g) * b.d, e)

minus(a, b) == plus(a, [b EXCEPT !.n = -b.n])

times(a, b) ==
  IF a.n = 0 \/ b.n = 0 THEN Norm(0, 1, 0)
  ELSE LET g1 == Gcd(Abs(a.n), b.d)
           g2 == Gcd(Abs(b.n), a.d)
       IN Norm((a.n \div g1) * (b.n \div g2), (a.d \div g2) * (b.d \div g1), a.e + b.e)

\* b is never zero where the mappings divide.
div(a, b) ==
  times(a, IF b.n < 0 THEN [n |-> -b.d, d |-> -b.n, e |-> -b.e]
                      ELSE [n |-> b.d, d |-> b.n, e |-> -b.e])

gt(a, b) == minus(a, b).n > 0
ge(a, b) == minus(a, b).n >= 0

---------------------------------------------------------------------------
(* Constants of helpers.ts *)

PROTOCOL_ID == "aave-v3-base"
ZERO_ADDRESS == "0x0000000000000000000000000000000000000000"

ZERO_BI == BI(0, 0)
ZERO_BD == BI(0, 0)
HUNDRED_BD == BI(100, 0)
RAY_BD == BI(1, 27)

SECONDS_PER_YEAR == 31536000
SECONDS_PER_HOUR == 3600
SECONDS_PER_DAY == 86400

RECURSIVE exponentToBigDecimal(_)
exponentToBigDecimal(decimals) ==
  IF decimals <= 0 THEN BI(1, 0)
  ELSE times(exponentToBigDecimal(decimals - 1), BI(10, 0))

convertTokenToDecimal(tokenAmount, decimals) ==
  IF decimals = 0 THEN tokenAmount
  ELSE div(tokenAmount, exponentToBigDecimal(decimals))

rayToDecimal(ray) == div(ray, RAY_BD)

\* calculateUtilizationRate as a fraction, not a percentage.
calculateUtilizationRateFraction(totalBorrow, totalSupply) ==
  IF totalSupply = ZERO_BI THEN ZERO_BD ELSE div(totalBorrow, totalSupply)

calculateUtilizationRate(totalBorrow, totalSupply) ==
  IF totalSupply = ZERO_BI THEN ZERO_BD
  ELSE times(div(totalBorrow, totalSupply), HUNDRED_BD)

\* getHourId rounding up.
getHourIdCeiling(timestamp) ==
  (timestamp + SECONDS_PER_HOUR - 1) \div SECONDS_PER_HOUR

getHourId(timestamp) == timestamp \div SECONDS_PER_HOUR

\* getDayId dividing by the length of an hour.
getDayIdHourly(timestamp) == timestamp \div SECONDS_PER_HOUR

getDayId(timestamp) == timestamp \div SECONDS_PER_DAY

\* An Address is 20 bytes and its id the lower-case hex string of those bytes,
\* one id per address: addresses are held as that string.
getTokenId(address) == address

---------------------------------------------------------------------------
(* The chain as the contract bindings see it at one block.  Every try_ call *)
(* returns [reverted, value].  A handler runs at one block, so all the      *)
(* calls of one invocation are answered by the same env.                    *)

Assets == {"a", "b"}
Users == {"u1"}
ATokenOf == [a |-> "ata", b |-> "atb"]
Addresses == Assets \cup {ATokenOf[x] : x \in Assets} \cup {ZERO_ADDRESS}

\* ERC20 decimals on chain; one whole token of x is 10^ChainDecimals[x] units.
ChainDecimals ==
  [x \in Addresses |-> IF x \in {"b", "atb"} THEN 17 ELSE 18]

QueryKinds ==
  {"getReservesList", "getReserveData", "getUserReserveData", "getAssetPrice",
   "BASE_CURRENCY_UNIT", "getReserveTokensAddresses",
   "getReserveConfigurationData", "ERC20"}

Ok(v) == [reverted |-> FALSE, value |-> v]
Reverted == [reverted |-> TRUE, value |-> 0]
Call(fails, kind, v) == IF kind \in fails THEN Reverted ELSE Ok(v)

ReserveDataOf(phase, x) ==
  LET u == ChainDecimals[x] IN
  IF x = "a" THEN
    IF phase = 1
    THEN [totalAToken |-> BI(4, u), totalVariableDebt |-> BI(2, u),
          totalStableDebt |-> BI(0, 0), liquidityRate |-> BI(3, 25),
          variableBorrowRate |-> BI(5, 25), stableBorrowRate |-> BI(6, 25)]
    ELSE [totalAToken |-> BI(5, u), totalVariableDebt |-> BI(3, u),
          totalStableDebt |-> BI(1, u), liquidityRate |-> BI(2, 25),
          variableBorrowRate |-> BI(6, 25), stableBorrowRate |-> BI(7, 25)]
  ELSE
    IF phase = 1
    THEN [totalAToken |-> BI(2, u), totalVariableDebt |-> BI(1, u),
          totalStableDebt |-> BI(0, 0), liquidityRate |-> BI(1, 25),
          variableBorrowRate |-> BI(2, 25), stableBorrowRate |-> BI(3, 25)]
    ELSE [totalAToken |-> BI(2, u), totalVariableDebt |-> BI(1, u),
          totalStableDebt |-> BI(0, 0), liquidityRate |-> BI(4, 25),
          variableBorrowRate |-> BI(4, 25), stableBorrowRate |-> BI(5, 25)]

UserReserveDataOf(phase, x) ==
  LET u == ChainDecimals[x] IN
  IF phase = 1
  THEN [currentATokenBalance |-> BI(2, u), currentVariableDebt |-> BI(0, 0),
        currentStableDebt |-> BI(0, 0), usageAsCollateralEnabled |-> TRUE]
  ELSE [currentATokenBalance |-> BI(1, u), currentVariableDebt |-> BI(1, u),
        currentStableDebt |-> BI(0, 0), usageAsCollateralEnabled |-> FALSE]

ConfigurationOf(x) ==
  [ltv |-> BI(8000, 0), liquidationThreshold |-> BI(8500, 0),
   liquidationBonus |-> BI(10500, 0),
   reserveFactor |-> IF x = "a" THEN BI(1000, 0) ELSE BI(2000, 0)]

\* The oracle quotes the listed assets in units of 10^-8 USD and has no source
\* for any other address.
AssetPriceOf(phase, x) ==
  IF x = "a" THEN BI(phase, 8) ELSE BI(3, 8)

World(phase, reserves, fails) ==
  [reservesList |-> Call(fails, "getReservesList", reserves),
   reserveData |-> [x \in Assets |->
       Call(fails, "getReserveData", ReserveDataOf(phase, x))],
   userReserveData |-> [x \in Assets |->
       Call(fails, "getUserReserveData", UserReserveDataOf(phase, x))],
   assetPrice |-> [x \in Addresses |->
       IF x \in Assets THEN Call(fails, "getAssetPrice", AssetPriceOf(phase, x))
       ELSE Reverted],
   baseCurrencyUnit |-> Call(fails, "BASE_CURRENCY_UNIT", BI(1, 8)),
   reserveTokensAddresses |-> [x \in Assets |->
       Call(fails, "getReserveTokensAddresses",
            [aTokenAddress |-> ATokenOf[x], stableDebtTokenAddress |-> ZERO_ADDRESS,
             variableDebtTokenAddress |-> ZERO_ADDRESS])],
   reserveConfigurationData |-> [x \in Assets |->
       Call(fails, "getReserveConfigurationData", ConfigurationOf(x))],
   symbol |-> [x \in Addresses |-> Call(fails, "ERC20", x)],
   name |-> [x \in Addresses |-> Call(fails, "ERC20", x)],
   decimals |-> [x \in Addresses |-> Call(fails, "ERC20", ChainDecimals[x])],
   totalSupply |-> [x \in Addresses |->
       Call(fails, "ERC20", BI(9, ChainDecimals[x]))]]

---------------------------------------------------------------------------
(* helpers.ts: token metadata *)

fetchTokenSymbol(env, tokenAddress) ==
  IF ~env.symbol[tokenAddress].reverted THEN env.symbol[tokenAddress].value
  ELSE "unknown"

fetchTokenName(env, tokenAddress) ==
  IF ~env.name[tokenAddress].reverted THEN env.name[tokenAddress].value
  ELSE "unknown"

\* fetchTokenDecimals without a default.
fetchTokenDecimalsAsAnswered(env, tokenAddress) == env.decimals[tokenAddress].value

fetchTokenDecimals(env, tokenAddress) ==
  IF ~env.decimals[tokenAddress].reverted THEN env.decimals[tokenAddress].value
  ELSE 18

fetchTokenTotalSupply(env, tokenAddress) ==
  IF ~env.totalSupply[tokenAddress].reverted THEN env.totalSupply[tokenAddress].value
  ELSE ZERO_BI

getAllMarkets(env) ==
  IF ~env.reservesList.reverted THEN env.reservesList.value ELSE <<>>

---------------------------------------------------------------------------
(* pricing.ts *)

getTokenPriceUSD(env, tokenAddress) ==
  LET priceResult == env.assetPrice[tokenAddress]
      baseCurrencyUnit == IF ~env.baseCurrencyUnit.reverted
                          THEN env.baseCurrencyUnit.value
                          ELSE BI(1, 8)
  IN IF priceResult.reverted THEN ZERO_BD
     ELSE div(priceResult.value, baseCurrencyUnit)

calculateUSDValue(env, amount, tokenAddress, decimals) ==
  LET price == getTokenPriceUSD(env, tokenAddress) IN
  IF price = ZERO_BD THEN ZERO_BD
  ELSE times(div(amount, exponentToBigDecimal(decimals)), price)

---------------------------------------------------------------------------
(* The entity store *)

NoEntities == [x \in {} |-> TRUE]

Put(f, id, entity) ==
  [x \in DOMAIN f \cup {id} |-> IF x = id THEN entity ELSE f[x]]

Store ==
  [protocol |-> protocol, markets |-> markets, tokens |-> tokens,
   users |-> users, positions |-> positions, transactions |-> transactions,
   hourlySnapshots |-> hourlySnapshots, dailySnapshots |-> dailySnapshots,
   dailyActiveUsers |-> dailyActiveUsers, trace |-> trace]

\* The calls made by the handler in progress, in order.
Log(st, entry) == [st EXCEPT !.trace = Append(st.trace, entry)]

---------------------------------------------------------------------------
(* pool.ts: entity creation *)

getOrCreateProtocol(st) ==
  IF PROTOCOL_ID \notin DOMAIN st.protocol
  THEN LET p == [totalSupplyUSD |-> ZERO_BD, totalBorrowUSD |-> ZERO_BD,
                 totalRevenueUSD |-> ZERO_BD,
                 cumulativeSupplySideRevenueUSD |-> ZERO_BD,
                 cumulativeProtocolSideRevenueUSD |-> ZERO_BD]
       IN [st |-> [st EXCEPT !.protocol = Put(st.protocol, PROTOCOL_ID, p)], e |-> p]
  ELSE [st |-> st, e |-> st.protocol[PROTOCOL_ID]]

getOrCreateToken(st, env, address) ==
  LET tokenId == getTokenId(address) IN
  IF tokenId \notin DOMAIN st.tokens
  THEN LET token == [id |-> tokenId,
                     symbol |-> fetchTokenSymbol(env, address),
                     name |-> fetchTokenName(env, address),
                     decimals |-> fetchTokenDecimals(env, address),
                     totalSupply |-> fetchTokenTotalSupply(env, address),
                     lastPriceUSD |-> getTokenPriceUSD(env, address),
                     lastPriceTimestamp |-> 0]
       IN [st |-> [st EXCEPT !.tokens = Put(st.tokens, tokenId, token)], e |-> token]
  ELSE [st |-> st, e |-> st.tokens[tokenId]]

getOrCreateUser(st, address) ==
  LET userId == getTokenId(address) IN
  IF userId \notin DOMAIN st.users
  THEN LET user == [id |-> userId, totalSupplyUSD |-> ZERO_BD,
                    totalBorrowUSD |-> ZERO_BD, transactionCount |-> 0]
       IN [st |-> [st EXCEPT !.users = Put(st.users, userId, user)], e |-> user]
  ELSE [st |-> st, e |-> st.users[userId]]

getOrCreateUserPosition(st, user, market) ==
  LET positionId == <<user.id, market.id>> IN
  IF positionId \notin DOMAIN st.positions
  THEN LET position == [id |-> positionId, user |-> user.id, market |-> market.id,
                        aTokenBalance |-> ZERO_BI, variableDebtBalance |-> ZERO_BI,
                        stableDebtBalance |-> ZERO_BI, principal |-> ZERO_BI,
                        totalDeposited |-> ZERO_BI, totalWithdrawn |-> ZERO_BI,
                        realizedPnL |-> ZERO_BD, unrealizedPnL |-> ZERO_BD,
                        isCollateral |-> FALSE, lastUpdateTimestamp |-> 0]
       IN [st |-> [st EXCEPT !.positions = Put(st.positions, positionId, position)],
           e |-> position]
  ELSE [st |-> st, e |-> st.positions[positionId]]

\* updateMarketState clearing the totals when the call reverts.
updateMarketStateClearing(env, market) ==
  IF ~env.reserveData[market.asset].reverted
  THEN [market EXCEPT
          !.totalSupply = env.reserveData[market.asset].value.totalAToken]
  ELSE [market EXCEPT !.totalSupply = ZERO_BI, !.totalBorrow = ZERO_BI,
                      !.availableLiquidity = ZERO_BI, !.utilizationRate = ZERO_BD]

\* Works on the market object only; the caller saves it.
updateMarketState(env, market) ==
  LET reserveData == env.reserveData[market.asset] IN
  IF ~reserveData.reverted
  THEN LET totalSupply == reserveData.value.totalAToken
           totalBorrow == plus(reserveData.value.totalVariableDebt,
                               reserveData.value.totalStableDebt)
       IN [market EXCEPT
             !.totalSupply = totalSupply,
             !.totalBorrow = totalBorrow,
             !.availableLiquidity = minus(totalSupply, totalBorrow),
             !.liquidityRate = reserveData.value.liquidityRate,
             !.variableBorrowRate = reserveData.value.variableBorrowRate,
             !.stableBorrowRate = reserveData.value.stableBorrowRate,
             !.utilizationRate = calculateUtilizationRate(totalBorrow, totalSupply)]
  ELSE market

\* Lines 70-129: the new market object, before its first sync.
newMarket(env, asset, currentTimestamp, aToken, inputToken, outputToken) ==
  LET tokenAddresses == env.reserveTokensAddresses[asset]
      configResult == env.reserveConfigurationData[asset]
  IN [id |-> getTokenId(asset), protocol |-> PROTOCOL_ID, asset |-> asset,
      aToken |-> aToken,
      sToken |-> IF ~tokenAddresses.reverted
                 THEN tokenAddresses.value.stableDebtTokenAddress ELSE ZERO_ADDRESS,
      vToken |-> IF ~tokenAddresses.reverted
                 THEN tokenAddresses.value.variableDebtTokenAddress ELSE ZERO_ADDRESS,
      inputToken |-> inputToken.id, outputToken |-> outputToken.id,
      totalSupply |-> ZERO_BI, totalBorrow |-> ZERO_BI,
      availableLiquidity |-> ZERO_BI, liquidityRate |-> ZERO_BI,
      variableBorrowRate |-> ZERO_BI, stableBorrowRate |-> ZERO_BI,
      supplyAPY |-> ZERO_BD, variableBorrowAPY |-> ZERO_BD,
      utilizationRate |-> ZERO_BD,
      ltv |-> IF ~configResult.reverted THEN configResult.value.ltv ELSE ZERO_BI,
      liquidationThreshold |-> IF ~configResult.reverted
              THEN configResult.value.liquidationThreshold ELSE ZERO_BI,
      liquidationPenalty |-> IF ~configResult.reverted
              THEN configResult.value.liquidationBonus ELSE ZERO_BI,
      reserveFactor |-> IF ~configResult.reverted
              THEN configResult.value.reserveFactor ELSE ZERO_BI,
      lastUpdateTimestamp |-> currentTimestamp,
      lastUpdateBlock |-> 0,
      lastRevenueCalculationTimestamp |-> currentTimestamp]

\* Lines 132-134: the save of the new market after its first sync.
saveNewMarket(st, market) ==
  [st |-> Log([st EXCEPT !.markets = Put(st.markets, market.id, market)],
              [op |-> "createMarket", market |-> market.id]),
   e |-> market]

\* createMarketWithTokens starting the revenue clock of the market at zero.
createMarketWithTokensFromEpoch(r2, env, asset, currentTimestamp, aToken, inputToken) ==
  saveNewMarket(r2.st,
                updateMarketState(env,
                  [newMarket(env, asset, currentTimestamp, aToken, inputToken, r2.e)
                     EXCEPT !.lastRevenueCalculationTimestamp = 0]))

\* Lines 92-134, r2 being the result of the output token's getOrCreateToken.
createMarketWithTokens(r2, env, asset, currentTimestamp, aToken, inputToken) ==
  saveNewMarket(r2.st,
                updateMarketState(env, newMarket(env, asset, currentTimestamp,
                                                 aToken, inputToken, r2.e)))

\* Lines 91-134, r1 being the result of the input token's getOrCreateToken.
createMarket(r1, env, asset, currentTimestamp, aToken) ==
  createMarketWithTokens(getOrCreateToken(r1.st, env, aToken), env, asset,
                         currentTimestamp, aToken, r1.e)

getOrCreateMarket(st, env, asset, currentTimestamp) ==
  LET marketId == getTokenId(asset)
      tokenAddresses == env.reserveTokensAddresses[asset]
      aToken == IF ~tokenAddresses.reverted
                THEN tokenAddresses.value.aTokenAddress ELSE ZERO_ADDRESS
  IN IF marketId \notin DOMAIN st.markets
     THEN createMarket(getOrCreateToken(st, env, asset), env, asset,
                       currentTimestamp, aToken)
     ELSE [st |-> st, e |-> st.markets[marketId]]

\* createTransaction keyed by the log index alone.
createTransactionByLogIndex(st, event, user, market, type, amount, amountUSD) ==
  [st EXCEPT !.transactions =
     Put(st.transactions, <<0, event.logIndex>>,
         [id |-> <<0, event.logIndex>>, hash |-> event.hash,
          timestamp |-> event.timestamp, block |-> event.number,
          from |-> user.id, market |-> market.id, type |-> type,
          amount |-> amount, amountUSD |-> amountUSD])]

createTransaction(st, event, user, market, type, amount, amountUSD) ==
  LET txId == <<event.hash, event.logIndex>>
      transaction == [id |-> txId, hash |-> event.hash,
                      timestamp |-> event.timestamp, block |-> event.number,
                      from |-> user.id, market |-> market.id, type |-> type,
                      amount |-> amount, amountUSD |-> amountUSD]
  IN [st EXCEPT !.transactions = Put(st.transactions, txId, transaction)]

\* updateUserPositionFromChain adding the queried balances to the stored ones.
updateUserPositionFromChainAdding(env, position, user, market) ==
  IF ~env.userReserveData[market.asset].reverted
  THEN [position EXCEPT
          !.aTokenBalance =
             plus(@, env.userReserveData[market.asset].value.currentATokenBalance),
          !.variableDebtBalance =
             plus(@, env.userReserveData[market.asset].value.currentVariableDebt),
          !.stableDebtBalance =
             plus(@, env.userReserveData[market.asset].value.currentStableDebt),
          !.isCollateral =
             env.userReserveData[market.asset].value.usageAsCollateralEnabled]
  ELSE position

\* Works on the position object only; the caller saves it.
updateUserPositionFromChain(env, position, user, market) ==
  LET userData == env.userReserveData[market.asset] IN
  IF ~userData.reverted
  THEN [position EXCEPT
          !.aTokenBalance = userData.value.currentATokenBalance,
          !.variableDebtBalance = userData.value.currentVariableDebt,
          !.stableDebtBalance = userData.value.currentStableDebt,
          !.isCollateral = userData.value.usageAsCollateralEnabled]
  ELSE position

---------------------------------------------------------------------------
(* helpers.ts / pool.ts: aggregation *)

\* addPositionTotals adding token amounts without their USD price.
addPositionTotalsUnpriced(totals, st, user, reserve) ==
  LET marketId == getTokenId(reserve)
      positionId == <<user.id, marketId>>
      found == /\ positionId \in DOMAIN st.positions
               /\ marketId \in DOMAIN st.markets
               /\ st.markets[marketId].inputToken \in DOMAIN st.tokens
      position == st.positions[positionId]
      token == st.tokens[st.markets[marketId].inputToken]
      totalDebt == plus(position.variableDebtBalance, position.stableDebtBalance)
  IN [totalSupplyUSD |->
        IF found /\ gt(position.aTokenBalance, ZERO_BI)
        THEN plus(totals.totalSupplyUSD,
                  convertTokenToDecimal(position.aTokenBalance, token.decimals))
        ELSE totals.totalSupplyUSD,
      totalBorrowUSD |->
        IF found /\ gt(totalDebt, ZERO_BI)
        THEN plus(totals.totalBorrowUSD,
                  convertTokenToDecimal(totalDebt, token.decimals))
        ELSE totals.totalBorrowUSD]

\* Lines 132-156: one pass of the loop, totals being the sums so far.
addPositionTotals(totals, st, user, reserve) ==
  LET marketId == getTokenId(reserve)
      positionId == <<user.id, marketId>>
      found == /\ positionId \in DOMAIN st.positions
               /\ marketId \in DOMAIN st.markets
               /\ st.markets[marketId].inputToken \in DOMAIN st.tokens
      position == st.positions[positionId]
      token == st.tokens[st.markets[marketId].inputToken]
      totalDebt == plus(position.variableDebtBalance, position.stableDebtBalance)
  IN [totalSupplyUSD |->
        IF found /\ gt(position.aTokenBalance, ZERO_BI)
        THEN plus(totals.totalSupplyUSD,
                  times(convertTokenToDecimal(position.aTokenBalance, token.decimals),
                        token.lastPriceUSD))
        ELSE totals.totalSupplyUSD,
      totalBorrowUSD |->
        IF found /\ gt(totalDebt, ZERO_BI)
        THEN plus(totals.totalBorrowUSD,
                  times(convertTokenToDecimal(totalDebt, token.decimals),
                        token.lastPriceUSD))
        ELSE totals.totalBorrowUSD]

RECURSIVE userTotalsLoop(_, _, _, _, _)
userTotalsLoop(totals, st, user, reserves, i) ==
  IF i > Len(reserves) THEN totals
  ELSE userTotalsLoop(addPositionTotals(totals, st, user, reserves[i]),
                      st, user, reserves, i + 1)

\* Lines 159-161: the two totals are overwritten and the user is saved.
saveUserTotals(st, user, totals) ==
  [st |-> Log([st EXCEPT !.users =
                 Put(st.users, user.id,
                     [user EXCEPT !.totalSupplyUSD = totals.totalSupplyUSD,
                                  !.totalBorrowUSD = totals.totalBorrowUSD])],
              [op |-> "recalculateUserTotals", user |-> user.id,
               positions |-> st.positions, markets |-> st.markets,
               tokens |-> st.tokens,
               totalSupplyUSD |-> totals.totalSupplyUSD,
               totalBorrowUSD |-> totals.totalBorrowUSD]),
   e |-> [user EXCEPT !.totalSupplyUSD = totals.totalSupplyUSD,
                      !.totalBorrowUSD = totals.totalBorrowUSD]]

\* recalculateUserTotals adding to the user's stored totals instead of
\* starting from zero.
recalculateUserTotalsIncremental(st, env, user) ==
  saveUserTotals(st, user,
    IF ~env.reservesList.reverted
    THEN userTotalsLoop([totalSupplyUSD |-> user.totalSupplyUSD,
                         totalBorrowUSD |-> user.totalBorrowUSD],
                        st, user, env.reservesList.value, 1)
    ELSE [totalSupplyUSD |-> ZERO_BD, totalBorrowUSD |-> ZERO_BD])

recalculateUserTotals(st, env, user) ==
  saveUserTotals(st, user,
    IF ~env.reservesList.reverted
    THEN userTotalsLoop([totalSupplyUSD |-> ZERO_BD, totalBorrowUSD |-> ZERO_BD],
                        st, user, env.reservesList.value, 1)
    ELSE [totalSupplyUSD |-> ZERO_BD, totalBorrowUSD |-> ZERO_BD])

\* addMarketTotals adding the supply total on the borrow side too.
addMarketTotalsSupplyTwice(acc, market, token) ==
  [st |-> [acc.st EXCEPT !.tokens = Put(acc.st.tokens, token.id, token)],
   totalSupplyUSD |->
      plus(acc.totalSupplyUSD,
           times(convertTokenToDecimal(market.totalSupply, token.decimals),
                 token.lastPriceUSD)),
   totalBorrowUSD |->
      plus(acc.totalBorrowUSD,
           times(convertTokenToDecimal(market.totalSupply, token.decimals),
                 token.lastPriceUSD))]

\* Lines 282-289: the market's totals are added at the token's price.
addMarketTotals(acc, market, token) ==
  [st |-> [acc.st EXCEPT !.tokens = Put(acc.st.tokens, token.id, token)],
   totalSupplyUSD |->
      plus(acc.totalSupplyUSD,
           times(convertTokenToDecimal(market.totalSupply, token.decimals),
                 token.lastPriceUSD)),
   totalBorrowUSD |->
      plus(acc.totalBorrowUSD,
           times(convertTokenToDecimal(market.totalBorrow, token.decimals),
                 token.lastPriceUSD))]

\* acc is [st, totalSupplyUSD, totalBorrowUSD] after the reserves before i.
\* The token of a listed market is repriced and saved before it is used.
RECURSIVE protocolTotalsLoop(_, _, _, _)
protocolTotalsLoop(acc, env, reserves, i) ==
  IF i > Len(reserves) THEN acc
  ELSE
    LET marketId == getTokenId(reserves[i])
        found == /\ marketId \in DOMAIN acc.st.markets
                 /\ acc.st.markets[marketId].inputToken \in DOMAIN acc.st.tokens
        market == acc.st.markets[marketId]
    IN protocolTotalsLoop(
         IF found
         THEN addMarketTotals(acc, market,
                [acc.st.tokens[market.inputToken] EXCEPT
                   !.lastPriceUSD = getTokenPriceUSD(env, market.inputToken)])
         ELSE acc,
         env, reserves, i + 1)

\* setProtocolTotals on a protocol object built anew, its revenue at zero.
setProtocolTotalsAnew(p, totalSupplyUSD, totalBorrowUSD) ==
  [p EXCEPT !.totalSupplyUSD = totalSupplyUSD, !.totalBorrowUSD = totalBorrowUSD,
            !.totalRevenueUSD = ZERO_BD,
            !.cumulativeSupplySideRevenueUSD = ZERO_BD,
            !.cumulativeProtocolSideRevenueUSD = ZERO_BD]

\* Lines 295-297: the two totals are overwritten; nothing else of the
\* protocol object changes.
setProtocolTotals(p, totalSupplyUSD, totalBorrowUSD) ==
  [p EXCEPT !.totalSupplyUSD = totalSupplyUSD, !.totalBorrowUSD = totalBorrowUSD]

\* Lines 295-297, acc being the result of the loop.
saveProtocolTotals(p, acc) ==
  Log([acc.st EXCEPT !.protocol =
         Put(acc.st.protocol, PROTOCOL_ID,
             setProtocolTotals(p, acc.totalSupplyUSD, acc.totalBorrowUSD))],
      [op |-> "recalculateProtocolTotals", markets |-> acc.st.markets,
       tokens |-> acc.st.tokens,
       totalSupplyUSD |-> acc.totalSupplyUSD,
       totalBorrowUSD |-> acc.totalBorrowUSD])

\* Lines 266-297, r0 being the result of getOrCreateProtocol.
sumProtocolTotals(r0, env) ==
  saveProtocolTotals(r0.e,
    IF ~env.reservesList.reverted
    THEN protocolTotalsLoop([st |-> r0.st, totalSupplyUSD |-> ZERO_BD,
                             totalBorrowUSD |-> ZERO_BD],
                            env, env.reservesList.value, 1)
    ELSE [st |-> r0.st, totalSupplyUSD |-> ZERO_BD, totalBorrowUSD |-> ZERO_BD])

recalculateProtocolTotals(st, env) == sumProtocolTotals(getOrCreateProtocol(st), env)

---------------------------------------------------------------------------
(* pool.ts: revenue accrual *)

\* revenueShares giving the supply side the whole period revenue.
revenueSharesWhole(periodRevenue, protocolRevenue) ==
  [accrued |-> TRUE, periodRevenue |-> periodRevenue,
   protocolRevenue |-> protocolRevenue,
   supplySideRevenue |-> periodRevenue]

\* Lines 331-336: the period's revenue and its two shares.
revenueShares(periodRevenue, protocolRevenue) ==
  [accrued |-> TRUE, periodRevenue |-> periodRevenue,
   protocolRevenue |-> protocolRevenue,
   supplySideRevenue |-> minus(periodRevenue, protocolRevenue)]

\* splitRevenue reading the reserve factor as a percentage.
splitRevenuePercent(periodRevenue, reserveFactor) ==
  revenueShares(periodRevenue,
                times(periodRevenue, div(reserveFactor, BI(100, 0))))

\* Lines 331-333: the reserve factor is in basis points.
splitRevenue(periodRevenue, reserveFactor) ==
  revenueShares(periodRevenue,
                times(periodRevenue, div(reserveFactor, BI(10000, 0))))

\* Lines 313-336: accrued is FALSE when the code skips the computation.
periodRevenueOf(st, market, timeElapsed) ==
  LET spread == minus(rayToDecimal(market.variableBorrowRate),
                      rayToDecimal(market.liquidityRate))
      token == st.tokens[market.inputToken]
      totalBorrowUSD == times(convertTokenToDecimal(market.totalBorrow, token.decimals),
                              token.lastPriceUSD)
  IN IF /\ gt(market.totalBorrow, ZERO_BI)
        /\ gt(market.variableBorrowRate, ZERO_BI)
        /\ gt(spread, ZERO_BD)
        /\ market.inputToken \in DOMAIN st.tokens
     THEN splitRevenue(div(times(times(spread, totalBorrowUSD), BI(timeElapsed, 0)),
                           BI(SECONDS_PER_YEAR, 0)),
                       market.reserveFactor)
     ELSE [accrued |-> FALSE, periodRevenue |-> ZERO_BD,
           protocolRevenue |-> ZERO_BD, supplySideRevenue |-> ZERO_BD]

\* accumulate leaving the total as it was.
accumulateWithoutTotal(p, rev) ==
  [p EXCEPT
     !.cumulativeSupplySideRevenueUSD = plus(@, rev.supplySideRevenue),
     !.cumulativeProtocolSideRevenueUSD = plus(@, rev.protocolRevenue)]

\* Lines 339-341.
accumulate(p, rev) ==
  [p EXCEPT
     !.cumulativeSupplySideRevenueUSD = plus(@, rev.supplySideRevenue),
     !.cumulativeProtocolSideRevenueUSD = plus(@, rev.protocolRevenue),
     !.totalRevenueUSD =
        plus(plus(p.cumulativeSupplySideRevenueUSD, rev.supplySideRevenue),
             plus(p.cumulativeProtocolSideRevenueUSD, rev.protocolRevenue))]

\* advances letting every timestamp but the stored one through.
advancesOnAnyChange(timestamp, market) ==
  timestamp # market.lastRevenueCalculationTimestamp

\* The guard of line 305: the call goes on only when time has passed.
advances(timestamp, market) == ~(timestamp <= market.lastRevenueCalculationTimestamp)

\* advanceTimestamp leaving the stored timestamp as it was.
advanceTimestampNever(market, timestamp, rev) == market

\* advanceTimestamp moved into the branch that computes revenue.
advanceTimestampOnRevenue(market, timestamp, rev) ==
  IF rev.accrued
  THEN [market EXCEPT !.lastRevenueCalculationTimestamp = timestamp]
  ELSE market

\* Line 359, reached on every path that passes the guard.
advanceTimestamp(market, timestamp, rev) ==
  [market EXCEPT !.lastRevenueCalculationTimestamp = timestamp]

\* What the call did, for the trace: st is the store before the call, st2
\* the store after it, saved the market object after it, rev the revenue of
\* the period.
accrualResult(st, st2, market, saved, timestamp, rev) ==
  [st |-> Log(st2,
              [op |-> "accrue", market |-> market.id, timestamp |-> timestamp,
               last |-> market.lastRevenueCalculationTimestamp,
               lastAfter |-> saved.lastRevenueCalculationTimestamp,
               totalBorrow |-> market.totalBorrow,
               liquidityRate |-> market.liquidityRate,
               variableBorrowRate |-> market.variableBorrowRate,
               accrued |-> rev.accrued, revenue |-> rev,
               stored |-> st.markets[market.id],
               storedAfter |-> st2.markets[market.id],
               before |-> st.protocol, after |-> st2.protocol,
               marketsSame |-> st2.markets = st.markets]),
   e |-> saved]

\* Lines 339-360, rev being the revenue of the period: the protocol is saved
\* only when revenue was computed, the market always.
accrue(st, r0, market, timestamp, rev) ==
  accrualResult(st,
    [r0.st EXCEPT
       !.protocol = IF rev.accrued
                    THEN Put(@, PROTOCOL_ID, accumulate(r0.e, rev)) ELSE @,
       !.markets = Put(@, market.id, advanceTimestamp(market, timestamp, rev))],
    market, advanceTimestamp(market, timestamp, rev), timestamp, rev)

\* accrueFrom without the guard of line 305.
accrueFromUnguarded(st, r0, market, timestamp) ==
  accrue(st, r0, market, timestamp,
         periodRevenueOf(r0.st, market,
                         timestamp - market.lastRevenueCalculationTimestamp))

\* Lines 302-360, r0 being the result of getOrCreateProtocol.
accrueFrom(st, r0, market, timestamp) ==
  IF advances(timestamp, market)
  THEN accrue(st, r0, market, timestamp,
              periodRevenueOf(r0.st, market,
                              timestamp - market.lastRevenueCalculationTimestamp))
  ELSE accrualResult(st, r0.st, market, market, timestamp,
                     [accrued |-> FALSE, periodRevenue |-> ZERO_BD,
                      protocolRevenue |-> ZERO_BD, supplySideRevenue |-> ZERO_BD])

calculateAndAccumulateRevenue(st, market, timestamp) ==
  accrueFrom(st, getOrCreateProtocol(st), market, timestamp)

---------------------------------------------------------------------------
(* snapshots *)

\* Lines 712-716 and 787-791.
snapshotState(snapshot, market) ==
  [snapshot EXCEPT !.supplyAPY = market.supplyAPY,
                   !.borrowAPY = market.variableBorrowAPY,
                   !.utilizationRate = market.utilizationRate,
                   !.totalSupply = market.totalSupply,
                   !.totalBorrow = market.totalBorrow]

\* hourlyVolume setting the counter to the volume of the event.
hourlyVolumeOverwriting(st, market, event, volumeType, volume) ==
  LET hourId == getHourId(event.timestamp)
      snapshotId == <<market.id, hourId>>
      loaded ==
        IF snapshotId \notin DOMAIN st.hourlySnapshots
        THEN [id |-> snapshotId, market |-> market.id, hourId |-> hourId,
              timestamp |-> event.timestamp,
              hourlySupplyVolume |-> ZERO_BI, hourlyWithdrawVolume |-> ZERO_BI,
              hourlyBorrowVolume |-> ZERO_BI, hourlyRepayVolume |-> ZERO_BI,
              supplyAPY |-> market.supplyAPY, borrowAPY |-> market.variableBorrowAPY,
              utilizationRate |-> market.utilizationRate,
              totalSupply |-> market.totalSupply, totalBorrow |-> market.totalBorrow]
        ELSE st.hourlySnapshots[snapshotId]
  IN IF volumeType = "SUPPLY"
     THEN [loaded EXCEPT !.hourlySupplyVolume = volume]
     ELSE IF volumeType = "WITHDRAW"
     THEN [loaded EXCEPT !.hourlyWithdrawVolume = volume]
     ELSE IF volumeType = "BORROW"
     THEN [loaded EXCEPT !.hourlyBorrowVolume = volume]
     ELSE IF volumeType = "REPAY"
     THEN [loaded EXCEPT !.hourlyRepayVolume = volume]
     ELSE loaded

\* Lines 679-709: the snapshot loaded or created, with the volume added.
hourlyVolume(st, market, event, volumeType, volume) ==
  LET hourId == getHourId(event.timestamp)
      snapshotId == <<market.id, hourId>>
      loaded ==
        IF snapshotId \notin DOMAIN st.hourlySnapshots
        THEN [id |-> snapshotId, market |-> market.id, hourId |-> hourId,
              timestamp |-> event.timestamp,
              hourlySupplyVolume |-> ZERO_BI, hourlyWithdrawVolume |-> ZERO_BI,
              hourlyBorrowVolume |-> ZERO_BI, hourlyRepayVolume |-> ZERO_BI,
              supplyAPY |-> market.supplyAPY, borrowAPY |-> market.variableBorrowAPY,
              utilizationRate |-> market.utilizationRate,
              totalSupply |-> market.totalSupply, totalBorrow |-> market.totalBorrow]
        ELSE st.hourlySnapshots[snapshotId]
  IN IF volumeType = "SUPPLY"
     THEN [loaded EXCEPT !.hourlySupplyVolume = plus(@, volume)]
     ELSE IF volumeType = "WITHDRAW"
     THEN [loaded EXCEPT !.hourlyWithdrawVolume = plus(@, volume)]
     ELSE IF volumeType = "BORROW"
     THEN [loaded EXCEPT !.hourlyBorrowVolume = plus(@, volume)]
     ELSE IF volumeType = "REPAY"
     THEN [loaded EXCEPT !.hourlyRepayVolume = plus(@, volume)]
     ELSE loaded

updateHourlySnapshot(st, market, event, volumeType, volume) ==
  Log([st EXCEPT !.hourlySnapshots =
         Put(@, <<market.id, getHourId(event.timestamp)>>,
             snapshotState(hourlyVolume(st, market, event, volumeType, volume),
                           market))],
      [op |-> "updateHourlySnapshot", market |-> market.id,
       id |-> <<market.id, getHourId(event.timestamp)>>])

\* Lines 733-769: the snapshot loaded or created, with the volume added.
dailyVolume(st, market, event, volumeType, volume) ==
  LET dayId == getDayId(event.timestamp)
      snapshotId == <<market.id, dayId>>
      loaded ==
        IF snapshotId \notin DOMAIN st.dailySnapshots
        THEN [id |-> snapshotId, market |-> market.id, dayId |-> dayId,
              timestamp |-> event.timestamp,
              dailySupplyVolume |-> ZERO_BI, dailyWithdrawVolume |-> ZERO_BI,
              dailyBorrowVolume |-> ZERO_BI, dailyRepayVolume |-> ZERO_BI,
              dailyActiveUsers |-> 0,
              dailySupplySideRevenueUSD |-> ZERO_BD,
              dailyProtocolSideRevenueUSD |-> ZERO_BD,
              dailyTotalRevenueUSD |-> ZERO_BD,
              supplyAPY |-> market.supplyAPY, borrowAPY |-> market.variableBorrowAPY,
              utilizationRate |-> market.utilizationRate,
              totalSupply |-> market.totalSupply, totalBorrow |-> market.totalBorrow]
        ELSE st.dailySnapshots[snapshotId]
  IN IF volumeType = "SUPPLY"
     THEN [loaded EXCEPT !.dailySupplyVolume = plus(@, volume)]
     ELSE IF volumeType = "WITHDRAW"
     THEN [loaded EXCEPT !.dailyWithdrawVolume = plus(@, volume)]
     ELSE IF volumeType = "BORROW"
     THEN [loaded EXCEPT !.dailyBorrowVolume = plus(@, volume)]
     ELSE IF volumeType = "REPAY"
     THEN [loaded EXCEPT !.dailyRepayVolume = plus(@, volume)]
     ELSE loaded

\* countActiveUser counting every action.
countActiveUserAlways(snapshot, firstSight) ==
  [snapshot EXCEPT !.dailyActiveUsers = @ + 1]

\* Lines 772-784: a user's first action of the day is counted.
countActiveUser(snapshot, firstSight) ==
  IF firstSight THEN [snapshot EXCEPT !.dailyActiveUsers = @ + 1] ELSE snapshot

\* Lines 811-816.
projectionShares(snapshot, dailyRevenue, protocolRevenue) ==
  [snapshot EXCEPT
     !.dailySupplySideRevenueUSD = minus(dailyRevenue, protocolRevenue),
     !.dailyProtocolSideRevenueUSD = protocolRevenue,
     !.dailyTotalRevenueUSD = dailyRevenue]

\* Lines 807-816.
setProjection(snapshot, dailyRevenue, reserveFactor) ==
  projectionShares(snapshot, dailyRevenue,
                   times(dailyRevenue, div(reserveFactor, BI(10000, 0))))

\* Lines 793-819: the projection from the market's current rates and borrow.
projectedDailyRevenue(st, market, snapshot) ==
  LET spread == minus(rayToDecimal(market.variableBorrowRate),
                      rayToDecimal(market.liquidityRate))
      token == st.tokens[market.inputToken]
      totalBorrowUSD == times(convertTokenToDecimal(market.totalBorrow, token.decimals),
                              token.lastPriceUSD)
  IN IF /\ gt(market.totalBorrow, ZERO_BI)
        /\ gt(market.variableBorrowRate, ZERO_BI)
        /\ gt(spread, ZERO_BD)
        /\ market.inputToken \in DOMAIN st.tokens
     THEN setProjection(snapshot, div(times(spread, totalBorrowUSD), BI(365, 0)),
                        market.reserveFactor)
     ELSE snapshot

updateDailySnapshot(st, market, event, volumeType, volume, amountUSD, userId) ==
  LET dayId == getDayId(event.timestamp)
      activeUserId == <<dayId, userId>>
      firstSight == activeUserId \notin DOMAIN st.dailyActiveUsers
  IN Log([st EXCEPT
            !.dailyActiveUsers =
               IF firstSight
               THEN Put(@, activeUserId,
                        [id |-> activeUserId, day |-> dayId, user |-> userId])
               ELSE @,
            !.dailySnapshots =
               Put(@, <<market.id, dayId>>,
                   projectedDailyRevenue(st, market,
                     snapshotState(
                       countActiveUser(
                         dailyVolume(st, market, event, volumeType, volume),
                         firstSight),
                       market)))],
         [op |-> "updateDailySnapshot", market |-> market.id,
          id |-> <<market.id, dayId>>, activeUser |-> activeUserId])

---------------------------------------------------------------------------
(* pool.ts: the event handlers.  event is [reserve, user, amount, timestamp, *)
(* number, hash, logIndex], user being the event's onBehalfOf or user.  The  *)
(* objects a handler holds travel in c = [st, market, user, position,        *)
(* amountUSD], st being the store.                                           *)

\* Line 424, r3 being the result of getOrCreateUserPosition.
loadPosition(market, user, r3) ==
  [st |-> r3.st, market |-> market, user |-> user, position |-> r3.e,
   amountUSD |-> ZERO_BD]

\* Lines 423-424, r2 being the result of getOrCreateUser.
loadUserPosition(market, r2) ==
  loadPosition(market, r2.e, getOrCreateUserPosition(r2.st, r2.e, market))

\* Lines 422-424, r1 being the result of getOrCreateMarket.
loadUser(r1, event) == loadUserPosition(r1.e, getOrCreateUser(r1.st, event.user))

\* Lines 422-424, the same in the four handlers.
eventEntities(st, env, event) ==
  loadUser(getOrCreateMarket(st, env, event.reserve, event.timestamp), event)

\* The market object is the one the call worked on.
withMarket(c, r) == [c EXCEPT !.st = r.st, !.market = r.e]

\* Line 427, the same in the four handlers.
eventAccrual(c, event) ==
  withMarket(c, calculateAndAccumulateRevenue(c.st, c.market, event.timestamp))

\* position.save()
savePosition(c, position) ==
  [c EXCEPT !.position = position,
            !.st = Log([c.st EXCEPT !.positions = Put(@, position.id, position)],
                       [op |-> "updateUserPositionFromChain",
                        market |-> c.market.id])]

\* supplyPosition that leaves totalDeposited alone.
supplyPositionUncounted(position, event) ==
  [position EXCEPT !.principal = plus(@, event.amount),
                   !.lastUpdateTimestamp = event.timestamp]

\* Lines 431-433.
supplyPosition(position, event) ==
  [position EXCEPT !.principal = plus(@, event.amount),
                   !.totalDeposited = plus(@, event.amount),
                   !.lastUpdateTimestamp = event.timestamp]

\* Lines 430-434.
supplyUpdate(c, env, event) ==
  savePosition(c, supplyPosition(
    updateUserPositionFromChain(env, c.position, event.user, c.market), event))

\* withdrawTotals that leaves totalWithdrawn alone.
withdrawTotalsUncounted(position, event) ==
  [position EXCEPT !.lastUpdateTimestamp = event.timestamp]

\* Lines 480-481.
withdrawTotals(position, event) ==
  [position EXCEPT !.totalWithdrawn = plus(@, event.amount),
                   !.lastUpdateTimestamp = event.timestamp]

\* realizePnL adding the figure to the stored one.
realizePnLRunningSum(st, position, market) ==
  IF /\ ge(position.totalWithdrawn, position.totalDeposited)
     /\ market.inputToken \in DOMAIN st.tokens
  THEN [position EXCEPT !.realizedPnL =
          plus(@, convertTokenToDecimal(
                    minus(position.totalWithdrawn, position.totalDeposited),
                    st.tokens[market.inputToken].decimals))]
  ELSE position

\* Lines 484-490.
realizePnL(st, position, market) ==
  IF /\ ge(position.totalWithdrawn, position.totalDeposited)
     /\ market.inputToken \in DOMAIN st.tokens
  THEN [position EXCEPT !.realizedPnL =
          convertTokenToDecimal(minus(position.totalWithdrawn, position.totalDeposited),
                                st.tokens[market.inputToken].decimals)]
  ELSE position

\* withdrawPrincipal without the floor.
withdrawPrincipalUnfloored(position, amount) ==
  [position EXCEPT !.principal = minus(@, amount)]

\* Lines 493-497.
withdrawPrincipal(position, amount) ==
  IF ge(position.principal, amount)
  THEN [position EXCEPT !.principal = minus(@, amount)]
  ELSE [position EXCEPT !.principal = ZERO_BI]

\* Lines 479-499.
withdrawUpdate(c, env, event) ==
  savePosition(c, withdrawPrincipal(
    realizePnL(c.st,
               withdrawTotals(
                 updateUserPositionFromChain(env, c.position, event.user, c.market),
                 event),
               c.market),
    event.amount))

\* Lines 541-543 and 585-587.
debtUpdate(c, env, event) ==
  savePosition(c,
    [updateUserPositionFromChain(env, c.position, event.user, c.market)
       EXCEPT !.lastUpdateTimestamp = event.timestamp])

\* market.save()
saveMarket(c, market) ==
  [c EXCEPT !.market = market,
            !.st = Log([c.st EXCEPT !.markets = Put(@, market.id, market)],
                       [op |-> "updateMarketState", market |-> market.id])]

\* Lines 437-440, the same in the four handlers.
eventMarketSync(c, env, event) ==
  saveMarket(c, [updateMarketState(env, c.market) EXCEPT
                   !.lastUpdateTimestamp = event.timestamp,
                   !.lastUpdateBlock = event.number])

\* recordTransaction saving the user as it was loaded.
recordTransactionUncounted(c, event, type, amountUSD, user) ==
  [c EXCEPT !.amountUSD = amountUSD,
            !.st = createTransaction(c.st, event, c.user, c.market, type,
                                     event.amount, amountUSD)]

\* Lines 450-454: the transaction is written and the user's count saved.
recordTransaction(c, event, type, amountUSD, user) ==
  [c EXCEPT !.amountUSD = amountUSD,
            !.user = user,
            !.st = [createTransaction(c.st, event, c.user, c.market, type,
                                      event.amount, amountUSD)
                      EXCEPT !.users = Put(@, user.id, user)]]

\* Lines 443-454, the same in the four handlers but for the type.
eventTransaction(c, env, event, type) ==
  recordTransaction(c, event, type,
    IF c.market.inputToken \in DOMAIN c.st.tokens
    THEN calculateUSDValue(env, event.amount, c.market.asset,
                           c.st.tokens[c.market.inputToken].decimals)
    ELSE ZERO_BD,
    [c.user EXCEPT !.transactionCount = @ + 1])

\* The user object is the one the call worked on.
withUser(c, r) == [c EXCEPT !.st = r.st, !.user = r.e]

\* Line 460.
withProtocolTotals(c, env) == [c EXCEPT !.st = recalculateProtocolTotals(c.st, env)]

\* Lines 457-460, the same in the four handlers.
eventTotals(c, env) ==
  withProtocolTotals(withUser(c, recalculateUserTotals(c.st, env, c.user)), env)

\* eventSnapshots recording every event as a supply.
eventSnapshotsAsSupply(c, event, type) ==
  updateDailySnapshot(
    updateHourlySnapshot(c.st, c.market, event, "SUPPLY", event.amount),
    c.market, event, "SUPPLY", event.amount, c.amountUSD, c.user.id)

\* Lines 463-464, the same in the four handlers but for the type.
eventSnapshots(c, event, type) ==
  updateDailySnapshot(
    updateHourlySnapshot(c.st, c.market, event, type, event.amount),
    c.market, event, type, event.amount, c.amountUSD, c.user.id)

handleSupply(st, env, event) ==
  eventSnapshots(
    eventTotals(
      eventTransaction(
        eventMarketSync(
          supplyUpdate(
            eventAccrual(eventEntities(st, env, event), event),
            env, event),
          env, event),
        env, event, "SUPPLY"),
      env),
    event, "SUPPLY")

handleWithdraw(st, env, event) ==
  eventSnapshots(
    eventTotals(
      eventTransaction(
        eventMarketSync(
          withdrawUpdate(
            eventAccrual(eventEntities(st, env, event), event),
            env, event),
          env, event),
        env, event, "WITHDRAW"),
      env),
    event, "WITHDRAW")

handleBorrow(st, env, event) ==
  eventSnapshots(
    eventTotals(
      eventTransaction(
        eventMarketSync(
          debtUpdate(
            eventAccrual(eventEntities(st, env, event), event),
            env, event),
          env, event),
        env, event, "BORROW"),
      env),
    event, "BORROW")

handleRepay(st, env, event) ==
  eventSnapshots(
    eventTotals(
      eventTransaction(
        eventMarketSync(
          debtUpdate(
            eventAccrual(eventEntities(st, env, event), event),
            env, event),
          env, event),
        env, event, "REPAY"),
      env),
    event, "REPAY")

\* Lines 627-637: the rates of the event, then the totals from the chain.
eventRates(env, market, event) ==
  updateMarketState(env,
    [market EXCEPT
       !.liquidityRate = event.liquidityRate,
       !.variableBorrowRate = event.variableBorrowRate,
       !.stableBorrowRate = event.stableBorrowRate,
       !.supplyAPY = times(rayToDecimal(event.liquidityRate), HUNDRED_BD),
       !.variableBorrowAPY = times(rayToDecimal(event.variableBorrowRate), HUNDRED_BD),
       !.lastUpdateTimestamp = event.timestamp,
       !.lastUpdateBlock = event.number])

\* Lines 641-642.
saveTickMarket(st, market, op) ==
  Log([st EXCEPT !.markets = Put(@, market.id, market)],
      [op |-> op, market |-> market.id])

\* Lines 627-645, r2 being the result of the accrual.
writeRates(r2, env, event) ==
  recalculateProtocolTotals(
    saveTickMarket(r2.st, eventRates(env, r2.e, event), "updateMarketState"), env)

\* Lines 624-645, r1 being the result of getOrCreateMarket.
accrueThenRates(r1, env, event) ==
  writeRates(calculateAndAccumulateRevenue(r1.st, r1.e, event.timestamp), env, event)

\* event is [reserve, liquidityRate, variableBorrowRate, stableBorrowRate,
\* timestamp, number].
handleReserveDataUpdated(st, env, event) ==
  accrueThenRates(getOrCreateMarket(st, env, event.reserve, event.timestamp),
                  env, event)

\* Lines 402-407: the input token repriced at the block, when it is stored.
updateTokenPrice(st, env, market, block) ==
  IF market.inputToken \in DOMAIN st.tokens
  THEN Log([st EXCEPT !.tokens =
              Put(@, market.inputToken,
                  [st.tokens[market.inputToken] EXCEPT
                     !.lastPriceUSD = getTokenPriceUSD(env, market.inputToken),
                     !.lastPriceTimestamp = block.timestamp])],
           [op |-> "updateTokenPrice", market |-> market.id])
  ELSE st

\* Lines 413-417.
updateAPYs(market, block) ==
  [market EXCEPT
     !.supplyAPY = times(rayToDecimal(market.liquidityRate), HUNDRED_BD),
     !.variableBorrowAPY = times(rayToDecimal(market.variableBorrowRate), HUNDRED_BD),
     !.lastUpdateTimestamp = block.timestamp,
     !.lastUpdateBlock = block.number]

\* Lines 413-418, r3 being the result of the accrual.
finishMarketInBlock(r3, block) ==
  saveTickMarket(r3.st, updateAPYs(r3.e, block), "updateAPYs")

\* Lines 402-418, synced being the market after updateMarketState.
processSyncedMarket(st, env, synced, block) ==
  finishMarketInBlock(
    calculateAndAccumulateRevenue(
      updateTokenPrice(Log(st, [op |-> "updateMarketState", market |-> synced.id]),
                       env, synced, block),
      synced, block.timestamp),
    block)

\* block is [timestamp, number].
processMarketInBlock(st, env, market, block) ==
  processSyncedMarket(st, env, updateMarketState(env, market), block)

\* processLoadedMarket with the protocol totals recomputed after each market.
processLoadedMarketThenTotals(r, env, block) ==
  recalculateProtocolTotals(processMarketInBlock(r.st, env, r.e, block), env)

\* Lines 381-388, r being the market loaded or created.
processLoadedMarket(r, env, block) == processMarketInBlock(r.st, env, r.e, block)

RECURSIVE blockLoop(_, _, _, _, _)
blockLoop(st, env, reserves, i, block) ==
  IF i > Len(reserves) THEN st
  ELSE blockLoop(
         processLoadedMarket(
           IF getTokenId(reserves[i]) \in DOMAIN st.markets
           THEN [st |-> st, e |-> st.markets[getTokenId(reserves[i])]]
           ELSE getOrCreateMarket(st, env, reserves[i], block.timestamp),
           env, block),
         env, reserves, i + 1, block)

\* handleBlock falling back to a fixed list of reserves when the discovery
\* fails.
handleBlockWithFallback(st, env, block) ==
  recalculateProtocolTotals(
    blockLoop(getOrCreateProtocol(st).st, env,
              IF env.reservesList.reverted THEN <<"a", "b">>
              ELSE env.reservesList.value,
              1, block),
    env)

handleBlock(st, env, block) ==
  IF env.reservesList.reverted
  THEN getOrCreateProtocol(st).st
  ELSE recalculateProtocolTotals(
         blockLoop(getOrCreateProtocol(st).st, env, env.reservesList.value, 1, block),
         env)

---------------------------------------------------------------------------
(* The specification: handlers run one at a time, each to completion, on   *)
(* any event and any answers of the chain.                                  *)

Times == {90000, 93600}

\* The answers of the chain at a block: two states of the reserves, a list
\* that lacks a reserve, a failing discovery, and every call failing.
Envs ==
  {World(1, <<"a", "b">>, {}), World(2, <<"a", "b">>, {}), World(2, <<"a">>, {}),
   World(2, <<"a", "b">>, {"getReservesList"}), World(1, <<"a", "b">>, QueryKinds)}

\* The rates a ReserveDataUpdated event carries.
EventRates ==
  {[liquidityRate |-> BI(1, 25), variableBorrowRate |-> BI(4, 25),
    stableBorrowRate |-> BI(5, 25)]}

UserEvent(reserve, user, timestamp) ==
  [reserve |-> reserve, user |-> user, amount |-> BI(1, ChainDecimals[reserve]),
   timestamp |-> timestamp, number |-> steps + 1, hash |-> steps + 1, logIndex |-> 0]

Init ==
  /\ protocol = NoEntities
  /\ markets = NoEntities
  /\ tokens = NoEntities
  /\ users = NoEntities
  /\ positions = NoEntities
  /\ transactions = NoEntities
  /\ hourlySnapshots = NoEntities
  /\ dailySnapshots = NoEntities
  /\ dailyActiveUsers = NoEntities
  /\ trace = <<>>
  /\ lastOp = "none"
  /\ lastEvent = [timestamp |-> 0, number |-> 0]
  /\ lastEnv = World(1, <<"a", "b">>, {})
  /\ steps = 0

\* The store a handler starts from, with an empty trace of its calls.
Begin == [Store EXCEPT !.trace = <<>>]

Commit(st, op, event, env) ==
  /\ protocol' = st.protocol
  /\ markets' = st.markets
  /\ tokens' = st.tokens
  /\ users' = st.users
  /\ positions' = st.positions
  /\ transactions' = st.transactions
  /\ hourlySnapshots' = st.hourlySnapshots
  /\ dailySnapshots' = st.dailySnapshots
  /\ dailyActiveUsers' = st.dailyActiveUsers
  /\ trace' = st.trace
  /\ lastOp' = op
  /\ lastEvent' = event
  /\ lastEnv' = env
  /\ steps' = steps + 1

Supply ==
  /\ steps < MaxEvents
  /\ \E reserve \in Assets, user \in Users, t \in Times, env \in Envs :
       LET event == UserEvent(reserve, user, t)
       IN Commit(handleSupply(Begin, env, event), "handleSupply", event, env)

Withdraw ==
  /\ steps < MaxEvents
  /\ \E reserve \in Assets, user \in Users, t \in Times, env \in Envs :
       LET event == UserEvent(reserve, user, t)
       IN Commit(handleWithdraw(Begin, env, event), "handleWithdraw", event, env)

Borrow ==
  /\ steps < MaxEvents
  /\ \E reserve \in Assets, user \in Users, t \in Times, env \in Envs :
       LET event == UserEvent(reserve, user, t)
       IN Commit(handleBorrow(Begin, env, event), "handleBorrow", event, env)

Repay ==
  /\ steps < MaxEvents
  /\ \E reserve \in Assets, user \in Users, t \in Times, env \in Envs :
       LET event == UserEvent(reserve, user, t)
       IN Commit(handleRepay(Begin, env, event), "handleRepay", event, env)

ReserveDataUpdated ==
  /\ steps < MaxEvents
  /\ \E reserve \in Assets, rates \in EventRates, t \in Times, env \in Envs :
       LET event == [reserve |-> reserve, liquidityRate |-> rates.liquidityRate,
                     variableBorrowRate |-> rates.variableBorrowRate,
                     stableBorrowRate |-> rates.stableBorrowRate,
                     timestamp |-> t, number |-> steps + 1]
       IN Commit(handleReserveDataUpdated(Begin, env, event),
                 "handleReserveDataUpdated", event, env)

Block ==
  /\ steps < MaxEvents
  /\ \E t \in Times, env \in Envs :
       LET block == [timestamp |-> t, number |-> steps + 1]
       IN Commit(handleBlock(Begin, env, block), "handleBlock", block, env)

Next == Supply \/ Withdraw \/ Borrow \/ Repay \/ ReserveDataUpdated \/ Block

Spec == Init /\ [][Next]_vars

---------------------------------------------------------------------------
(* The accrual alone: calculateAndAccumulateRevenue called on one market    *)
(* whose borrow total, rates, reserve factor, token decimals and token      *)
(* price are any of a few values, for any of a few elapsed times.            *)

MaxAccruals == 2

\* totalBorrow in units of the token: none, 10^12, 3 * 10^18.
AccrualBorrows == {ZERO_BI, BI(1, 12), BI(3, 18)}

\* <<liquidityRate, variableBorrowRate>> in ray: 3% / 5%, 5% / 5%, 1% / 2%,
\* and no rates.
AccrualRates ==
  {<<BI(3, 25), BI(5, 25)>>, <<BI(5, 25), BI(5, 25)>>, <<BI(1, 25), BI(2, 25)>>,
   <<ZERO_BI, ZERO_BI>>}

\* reserveFactor in basis points.
AccrualFactors == {ZERO_BI, BI(1000, 0), BI(2500, 0), BI(10000, 0)}

AccrualDecimals == {6, 18}

AccrualPrices == {ZERO_BD, BI(1, 0), BI(2, 0)}

\* Seconds between the stored timestamp and the one of the call.
AccrualElapsed == {0, SECONDS_PER_HOUR, SECONDS_PER_YEAR}

\* Market a as getOrCreateMarket leaves it at timestamp 90000 when no call
\* answers, with the fields the chain later sets.
AccrualMarket(borrow, rates, factor) ==
  [newMarket(World(1, <<"a">>, QueryKinds), "a", 90000, ZERO_ADDRESS,
             [id |-> getTokenId("a")], [id |-> getTokenId(ZERO_ADDRESS)])
     EXCEPT !.totalBorrow = borrow,
            !.totalSupply = plus(borrow, borrow),
            !.liquidityRate = rates[1],
            !.variableBorrowRate = rates[2],
            !.reserveFactor = factor]

AccrualToken(decimals, price) ==
  [id |-> getTokenId("a"), symbol |-> "a", name |-> "a", decimals |-> decimals,
   totalSupply |-> ZERO_BI, lastPriceUSD |-> price, lastPriceTimestamp |-> 90000]

InitAccrual ==
  /\ \E borrow \in AccrualBorrows, rates \in AccrualRates,
        factor \in AccrualFactors :
       markets = Put(NoEntities, "a", AccrualMarket(borrow, rates, factor))
  /\ \E decimals \in AccrualDecimals, price \in AccrualPrices :
       tokens = Put(NoEntities, "a", AccrualToken(decimals, price))
  /\ protocol = NoEntities
  /\ users = NoEntities
  /\ positions = NoEntities
  /\ transactions = NoEntities
  /\ hourlySnapshots = NoEntities
  /\ dailySnapshots = NoEntities
  /\ dailyActiveUsers = NoEntities
  /\ trace = <<>>
  /\ lastOp = "none"
  /\ lastEvent = [timestamp |-> 90000, number |-> 0]
  /\ lastEnv = World(1, <<"a">>, QueryKinds)
  /\ steps = 0

Accrue ==
  /\ steps < MaxAccruals
  /\ \E elapsed \in AccrualElapsed :
       Commit(calculateAndAccumulateRevenue(
                Begin, markets["a"],
                markets["a"].lastRevenueCalculationTimestamp + elapsed).st,
              "calculateAndAccumulateRevenue",
              [timestamp |-> markets["a"].lastRevenueCalculationTimestamp + elapsed,
               number |-> steps + 1],
              lastEnv)

NextAccrual == Accrue

SpecAccrual == InitAccrual /\ [][NextAccrual]_vars

---------------------------------------------------------------------------
(* The ledger of one position: the six handlers on reserve a and user u1,   *)
(* supplies and withdrawals of 50, 60 or 100 tokens.                         *)

MaxLedgerEvents == 3

LedgerAmounts == {BI(50, 18), BI(60, 18), BI(100, 18)}

LedgerEnv == World(1, <<"a", "b">>, {})

LedgerEvent(amount) == [UserEvent("a", "u1", 90000) EXCEPT !.amount = amount]

LedgerSupply ==
  /\ steps < MaxLedgerEvents
  /\ \E amount \in LedgerAmounts :
       Commit(handleSupply(Begin, LedgerEnv, LedgerEvent(amount)),
              "handleSupply", LedgerEvent(amount), LedgerEnv)

LedgerWithdraw ==
  /\ steps < MaxLedgerEvents
  /\ \E amount \in LedgerAmounts :
       Commit(handleWithdraw(Begin, LedgerEnv, LedgerEvent(amount)),
              "handleWithdraw", LedgerEvent(amount), LedgerEnv)

LedgerBorrow ==
  /\ steps < MaxLedgerEvents
  /\ Commit(handleBorrow(Begin, LedgerEnv, UserEvent("a", "u1", 90000)),
            "handleBorrow", UserEvent("a", "u1", 90000), LedgerEnv)

LedgerRepay ==
  /\ steps < MaxLedgerEvents
  /\ Commit(handleRepay(Begin, LedgerEnv, UserEvent("a", "u1", 90000)),
            "handleRepay", UserEvent("a", "u1", 90000), LedgerEnv)

LedgerRates ==
  /\ steps < MaxLedgerEvents
  /\ \E rates \in EventRates :
       LET event == [reserve |-> "a", liquidityRate |-> rates.liquidityRate,
                     variableBorrowRate |-> rates.variableBorrowRate,
                     stableBorrowRate |-> rates.stableBorrowRate,
                     timestamp |-> 90000, number |-> steps + 1]
       IN Commit(handleReserveDataUpdated(Begin, LedgerEnv, event),
                 "handleReserveDataUpdated", event, LedgerEnv)

LedgerBlock ==
  /\ steps < MaxLedgerEvents
  /\ Commit(handleBlock(Begin, LedgerEnv, [timestamp |-> 90000, number |-> steps + 1]),
            "handleBlock", [timestamp |-> 90000, number |-> steps + 1], LedgerEnv)

NextLedger ==
  \/ LedgerSupply \/ LedgerWithdraw \/ LedgerBorrow \/ LedgerRepay
  \/ LedgerRates \/ LedgerBlock

SpecLedger == Init /\ [][NextLedger]_vars

---------------------------------------------------------------------------
(* The snapshots: the four user handlers, for two users on reserve a and    *)
(* one of them on reserve b, at the last second of a day, the first of the  *)
(* next, and two times of the hours after it; rate updates of reserve a and *)
(* ticks come between them.                                                  *)

MaxSnapshotEvents == 2

\* 86399 = 86400 - 1, 86400 = 24 * 3600, 89999 = 25 * 3600 - 1, 90000.
SnapshotTimes == {86399, 86400, 89999, 90000}

\* <<reserve, user>> of an event.
SnapshotParties == {<<"a", "u1">>, <<"a", "u2">>, <<"b", "u1">>}

SnapshotSupply ==
  /\ steps < MaxSnapshotEvents
  /\ \E party \in SnapshotParties, t \in SnapshotTimes :
       Commit(handleSupply(Begin, LedgerEnv, UserEvent(party[1], party[2], t)),
              "handleSupply", UserEvent(party[1], party[2], t), LedgerEnv)

SnapshotWithdraw ==
  /\ steps < MaxSnapshotEvents
  /\ \E party \in SnapshotParties, t \in SnapshotTimes :
       Commit(handleWithdraw(Begin, LedgerEnv, UserEvent(party[1], party[2], t)),
              "handleWithdraw", UserEvent(party[1], party[2], t), LedgerEnv)

SnapshotBorrow ==
  /\ steps < MaxSnapshotEvents
  /\ \E party \in SnapshotParties, t \in SnapshotTimes :
       Commit(handleBorrow(Begin, LedgerEnv, UserEvent(party[1], party[2], t)),
              "handleBorrow", UserEvent(party[1], party[2], t), LedgerEnv)

SnapshotRepay ==
  /\ steps < MaxSnapshotEvents
  /\ \E party \in SnapshotParties, t \in SnapshotTimes :
       Commit(handleRepay(Begin, LedgerEnv, UserEvent(party[1], party[2], t)),
              "handleRepay", UserEvent(party[1], party[2], t), LedgerEnv)

SnapshotRates ==
  /\ steps < MaxSnapshotEvents
  /\ \E rates \in EventRates :
       LET event == [reserve |-> "a", liquidityRate |-> rates.liquidityRate,
                     variableBorrowRate |-> rates.variableBorrowRate,
                     stableBorrowRate |-> rates.stableBorrowRate,
                     timestamp |-> 90000, number |-> steps + 1]
       IN Commit(handleReserveDataUpdated(Begin, LedgerEnv, event),
                 "handleReserveDataUpdated", event, LedgerEnv)

SnapshotBlock ==
  /\ steps < MaxSnapshotEvents
  /\ Commit(handleBlock(Begin, LedgerEnv, [timestamp |-> 90000, number |-> steps + 1]),
            "handleBlock", [timestamp |-> 90000, number |-> steps + 1], LedgerEnv)

NextSnapshots ==
  \/ SnapshotSupply \/ SnapshotWithdraw \/ SnapshotBorrow \/ SnapshotRepay
  \/ SnapshotRates \/ SnapshotBlock

SpecSnapshots == Init /\ [][NextSnapshots]_vars

---------------------------------------------------------------------------
(* Failing calls: one handler run at timestamp 93600 in which the external  *)
(* calls of any kinds revert, on an empty store, on the store a supply to   *)
(* reserve a left at 90000, or on the store a tick left at 90000.            *)

MaxFailureEvents == 1

\* The chain in its second state with the calls of the given kinds reverting.
FailureEnvs == {World(2, <<"a", "b">>, fails) : fails \in SUBSET QueryKinds}

EmptyStore ==
  [protocol |-> NoEntities, markets |-> NoEntities, tokens |-> NoEntities,
   users |-> NoEntities, positions |-> NoEntities, transactions |-> NoEntities,
   hourlySnapshots |-> NoEntities, dailySnapshots |-> NoEntities,
   dailyActiveUsers |-> NoEntities, trace |-> <<>>]

\* The stores the handler starts from.
FailureSeeds ==
  {EmptyStore,
   handleSupply(EmptyStore, World(1, <<"a", "b">>, {}),
                [reserve |-> "a", user |-> "u1", amount |-> BI(1, 18),
                 timestamp |-> 90000, number |-> 0, hash |-> 0, logIndex |-> 0]),
   handleBlock(EmptyStore, World(1, <<"a", "b">>, {}),
               [timestamp |-> 90000, number |-> 0])}

InitFailures ==
  /\ \E seed \in FailureSeeds :
       /\ protocol = seed.protocol
       /\ markets = seed.markets
       /\ tokens = seed.tokens
       /\ users = seed.users
       /\ positions = seed.positions
       /\ transactions = seed.transactions
       /\ hourlySnapshots = seed.hourlySnapshots
       /\ dailySnapshots = seed.dailySnapshots
       /\ dailyActiveUsers = seed.dailyActiveUsers
  /\ trace = <<>>
  /\ lastOp = "none"
  /\ lastEvent = [timestamp |-> 90000, number |-> 0]
  /\ lastEnv = World(1, <<"a", "b">>, {})
  /\ steps = 0

FailingSupply ==
  /\ steps < MaxFailureEvents
  /\ \E reserve \in Assets, env \in FailureEnvs :
       Commit(handleSupply(Begin, env, UserEvent(reserve, "u1", 93600)),
              "handleSupply", UserEvent(reserve, "u1", 93600), env)

FailingWithdraw ==
  /\ steps < MaxFailureEvents
  /\ \E reserve \in Assets, env \in FailureEnvs :
       Commit(handleWithdraw(Begin, env, UserEvent(reserve, "u1", 93600)),
              "handleWithdraw", UserEvent(reserve, "u1", 93600), env)

FailingBorrow ==
  /\ steps < MaxFailureEvents
  /\ \E reserve \in Assets, env \in FailureEnvs :
       Commit(handleBorrow(Begin, env, UserEvent(reserve, "u1", 93600)),
              "handleBorrow", UserEvent(reserve, "u1", 93600), env)

FailingRepay ==
  /\ steps < MaxFailureEvents
  /\ \E reserve \in Assets, env \in FailureEnvs :
       Commit(handleRepay(Begin, env, UserEvent(reserve, "u1", 93600)),
              "handleRepay", UserEvent(reserve, "u1", 93600), env)

FailingRates ==
  /\ steps < MaxFailureEvents
  /\ \E reserve \in Assets, rates \in EventRates, env \in FailureEnvs :
       LET event == [reserve |-> reserve, liquidityRate |-> rates.liquidityRate,
                     variableBorrowRate |-> rates.variableBorrowRate,
                     stableBorrowRate |-> rates.stableBorrowRate,
                     timestamp |-> 93600, number |-> steps + 1]
       IN Commit(handleReserveDataUpdated(Begin, env, event),
                 "handleReserveDataUpdated", event, env)

FailingBlock ==
  /\ steps < MaxFailureEvents
  /\ \E env \in FailureEnvs :
       Commit(handleBlock(Begin, env, [timestamp |-> 93600, number |-> steps + 1]),
              "handleBlock", [timestamp |-> 93600, number |-> steps + 1], env)

NextFailures ==
  \/ FailingSupply \/ FailingWithdraw \/ FailingBorrow \/ FailingRepay
  \/ FailingRates \/ FailingBlock

SpecFailures == InitFailures /\ [][NextFailures]_vars

---------------------------------------------------------------------------
(* Properties.  trace holds the calls of the handler that ran last, lastOp  *)
(* its name, lastEvent its event or block and lastEnv the chain's answers.  *)

UserHandlers == {"handleSupply", "handleWithdraw", "handleBorrow", "handleRepay"}

\* The calls of the last handler to the named function.
Calls(op) == {trace[i] : i \in {j \in 1..Len(trace) : trace[j].op = op}}

\* The market ids the discovery of env lists; none when it fails.
Discovered(env) ==
  IF env.reservesList.reverted THEN {}
  ELSE {getTokenId(env.reservesList.value[i]) : i \in 1..Len(env.reservesList.value)}

RECURSIVE SumOver(_, _)
SumOver(value, S) ==
  IF S = {} THEN ZERO_BD
  ELSE plus(value[CHOOSE x \in S : TRUE],
            SumOver(value, S \ {CHOOSE x \in S : TRUE}))

\* amount units of a token in USD: whole tokens times the stored price.
ValueUSD(amount, token) == times(div(amount, BI(1, token.decimals)), token.lastPriceUSD)

\* The three revenue counters of a protocol store; zero before the singleton
\* exists.
Counters(p) ==
  IF PROTOCOL_ID \in DOMAIN p
  THEN <<p[PROTOCOL_ID].cumulativeSupplySideRevenueUSD,
         p[PROTOCOL_ID].cumulativeProtocolSideRevenueUSD,
         p[PROTOCOL_ID].totalRevenueUSD>>
  ELSE <<ZERO_BD, ZERO_BD, ZERO_BD>>

\* C1: in every reachable state the Protocol singleton's totalRevenueUSD is
\* the sum of its cumulative supply-side and protocol-side revenue.
C1_TotalRevenueIsSum ==
  PROTOCOL_ID \in DOMAIN protocol =>
    protocol[PROTOCOL_ID].totalRevenueUSD =
      plus(protocol[PROTOCOL_ID].cumulativeSupplySideRevenueUSD,
           protocol[PROTOCOL_ID].cumulativeProtocolSideRevenueUSD)

\* Two markets have accrued revenue, each split into two non-zero shares.
C1_Witness ==
  /\ PROTOCOL_ID \in DOMAIN protocol
  /\ Cardinality({e \in Calls("accrue") : e.accrued}) = 2
  /\ gt(protocol[PROTOCOL_ID].cumulativeSupplySideRevenueUSD, ZERO_BD)
  /\ gt(protocol[PROTOCOL_ID].cumulativeProtocolSideRevenueUSD, ZERO_BD)

\* C2: no handler removes a market or lowers its
\* lastRevenueCalculationTimestamp, whatever the timestamp it is given.
C2_TimestampNeverDecreases ==
  [][\A m \in DOMAIN markets :
       /\ m \in DOMAIN markets'
       /\ markets'[m].lastRevenueCalculationTimestamp
            >= markets[m].lastRevenueCalculationTimestamp]_vars

\* A handler has just accrued for a market with a timestamp lower than the
\* one the market had stored.
C2_Witness ==
  \E e \in Calls("accrue") :
    /\ e.timestamp < e.stored.lastRevenueCalculationTimestamp
    /\ e.market \in DOMAIN markets

\* C3: a call of the accrual with a timestamp not after the market's
\* lastRevenueCalculationTimestamp changes neither the revenue counters of the
\* protocol nor any market, the timestamp of its own market included.
C3_AccrualNoOpWhenNotLater ==
  \A e \in Calls("accrue") :
    e.timestamp <= e.last =>
      /\ e.lastAfter = e.last
      /\ e.storedAfter = e.stored
      /\ e.marketsSame
      /\ Counters(e.after) = Counters(e.before)
      /\ (PROTOCOL_ID \in DOMAIN e.before => e.after = e.before)

\* The accrual was called again with the timestamp a market had stored from
\* an earlier event.
C3_Witness ==
  \E e \in Calls("accrue") :
    /\ e.timestamp = e.last
    /\ Calls("createMarket") = {}
    /\ steps = 2
    /\ PROTOCOL_ID \in DOMAIN e.before

\* C4: whenever a handler accrues revenue for an elapsed interval, the
\* totalBorrow, liquidityRate and variableBorrowRate it computes from are the
\* ones the market had stored before the event.
C4_AccrualUsesStoredState ==
  \A e \in Calls("accrue") :
    e.timestamp > e.last =>
      /\ e.totalBorrow = e.stored.totalBorrow
      /\ e.liquidityRate = e.stored.liquidityRate
      /\ e.variableBorrowRate = e.stored.variableBorrowRate

\* The positions of user that count: those in a market that env lists.
ListedPositions(env, user, positionStore) ==
  {id \in DOMAIN positionStore :
     /\ positionStore[id].user = user
     /\ positionStore[id].market \in Discovered(env)}

AllPositions(user, positionStore) ==
  {id \in DOMAIN positionStore : positionStore[id].user = user}

\* Per position, the supplied balance and the debt in USD at the input
\* token's stored price.
PositionSupplyUSD(positionStore, marketStore, tokenStore) ==
  [id \in DOMAIN positionStore |->
     ValueUSD(positionStore[id].aTokenBalance,
              tokenStore[marketStore[positionStore[id].market].inputToken])]

PositionBorrowUSD(positionStore, marketStore, tokenStore) ==
  [id \in DOMAIN positionStore |->
     ValueUSD(plus(positionStore[id].variableDebtBalance,
                   positionStore[id].stableDebtBalance),
              tokenStore[marketStore[positionStore[id].market].inputToken])]

MarketSupplyUSD(marketStore, tokenStore) ==
  [m \in DOMAIN marketStore |->
     ValueUSD(marketStore[m].totalSupply, tokenStore[marketStore[m].inputToken])]

MarketBorrowUSD(marketStore, tokenStore) ==
  [m \in DOMAIN marketStore |->
     ValueUSD(marketStore[m].totalBorrow, tokenStore[marketStore[m].inputToken])]

Entities(st) == [st EXCEPT !.trace = <<>>]

\* The operation applied again to its own result.
UserTotalsTwice(env, user) ==
  recalculateUserTotals(recalculateUserTotals(Store, env, user).st, env,
                        recalculateUserTotals(Store, env, user).e)

ProtocolTotalsTwice(env) ==
  recalculateProtocolTotals(recalculateProtocolTotals(Store, env), env)

\* C7: from every reachable store and under every answer of the chain,
\* recalculateUserTotals and recalculateProtocolTotals applied twice in a row
\* leave the totals and the store that one application leaves.
C7_RecalcIdempotent ==
  \A env \in Envs :
    /\ \A u \in DOMAIN users :
         /\ UserTotalsTwice(env, users[u]).e =
              recalculateUserTotals(Store, env, users[u]).e
         /\ Entities(UserTotalsTwice(env, users[u]).st) =
              Entities(recalculateUserTotals(Store, env, users[u]).st)
    /\ Entities(ProtocolTotalsTwice(env)) =
         Entities(recalculateProtocolTotals(Store, env))

\* A store from which both recomputations give totals that are not zero and
\* differ from the stored ones.
C7_Witness ==
  \E env \in Envs, u \in DOMAIN users :
    /\ gt(recalculateUserTotals(Store, env, users[u]).e.totalSupplyUSD, ZERO_BD)
    /\ recalculateUserTotals(Store, env, users[u]).e # users[u]
    /\ PROTOCOL_ID \in DOMAIN protocol
    /\ gt(recalculateProtocolTotals(Store, env).protocol[PROTOCOL_ID].totalSupplyUSD,
          ZERO_BD)
    /\ recalculateProtocolTotals(Store, env).protocol # protocol

\* C8: the totals a handler of a user event leaves are the ones computed from
\* the balances and the token prices the event leaves in the store.
C8_TotalsFromFinalState ==
  (lastOp \in UserHandlers) =>
    /\ users[lastEvent.user].totalSupplyUSD =
         SumOver(PositionSupplyUSD(positions, markets, tokens),
                 ListedPositions(lastEnv, lastEvent.user, positions))
    /\ users[lastEvent.user].totalBorrowUSD =
         SumOver(PositionBorrowUSD(positions, markets, tokens),
                 ListedPositions(lastEnv, lastEvent.user, positions))
    /\ protocol[PROTOCOL_ID].totalSupplyUSD =
         SumOver(MarketSupplyUSD(markets, tokens),
                 DOMAIN markets \cap Discovered(lastEnv))
    /\ protocol[PROTOCOL_ID].totalBorrowUSD =
         SumOver(MarketBorrowUSD(markets, tokens),
                 DOMAIN markets \cap Discovered(lastEnv))

\* The calls of the last handler without the creation of markets, each as
\* its name and its market.
Step(e) == [op |-> e.op, market |-> IF "market" \in DOMAIN e THEN e.market ELSE ""]

NotCreation(e) == e.op # "createMarket"

Steps(calls) ==
  [i \in 1..Len(SelectSeq(calls, NotCreation)) |->
     Step(SelectSeq(calls, NotCreation)[i])]

PerMarket == <<"updateMarketState", "updateTokenPrice", "accrue", "updateAPYs">>

\* The four steps for each reserve of the list in turn, then one aggregation.
TickSteps(reserves) ==
  [i \in 1..(Len(PerMarket) * Len(reserves) + 1) |->
     IF i > Len(PerMarket) * Len(reserves)
     THEN [op |-> "recalculateProtocolTotals", market |-> ""]
     ELSE [op |-> PerMarket[((i - 1) % Len(PerMarket)) + 1],
           market |-> getTokenId(reserves[((i - 1) \div Len(PerMarket)) + 1])]]

\* C9: a tick whose discovery succeeds runs, for each listed market in turn,
\* resync, price refresh, accrual and APY recompute, and then the protocol
\* aggregation once, after the last market.
C9_TickSequence ==
  (lastOp = "handleBlock" /\ ~lastEnv.reservesList.reverted) =>
    Steps(trace) = TickSteps(lastEnv.reservesList.value)

\* A tick over two markets, one of which accrued revenue.
C9_Witness ==
  /\ lastOp = "handleBlock"
  /\ ~lastEnv.reservesList.reverted
  /\ Len(lastEnv.reservesList.value) = 2
  /\ \E e \in Calls("accrue") : e.accrued

\* The cases in which the accrual computes no revenue.
NoRevenue(e) ==
  \/ ~gt(e.totalBorrow, ZERO_BI)
  \/ ~gt(e.variableBorrowRate, ZERO_BI)
  \/ ~gt(minus(e.variableBorrowRate, e.liquidityRate), ZERO_BI)
  \/ e.stored.inputToken \notin DOMAIN tokens

\* C10: a call of the accrual with a timestamp after the market's
\* lastRevenueCalculationTimestamp leaves the market, in hand and in the
\* store, with that timestamp, and when it computes no revenue the revenue
\* counters of the protocol are as before.
C10_TimestampAdvances ==
  \A e \in Calls("accrue") :
    e.timestamp > e.last =>
      /\ e.lastAfter = e.timestamp
      /\ e.storedAfter.lastRevenueCalculationTimestamp = e.timestamp
      /\ markets[e.market].lastRevenueCalculationTimestamp = e.timestamp
      /\ (NoRevenue(e) => Counters(e.after) = Counters(e.before))

\* A later timestamp reached a market without borrows.
C10_Witness ==
  \E e \in Calls("accrue") :
    /\ e.timestamp > e.last
    /\ NoRevenue(e)
    /\ ~gt(e.totalBorrow, ZERO_BI)

\* C11: an accrual that computes revenue splits it in two shares that add up
\* to the period revenue, the protocol's share being the period revenue
\* times the reserve factor over 10000, and nothing when the factor is zero;
\* the shares are what the two cumulative counters grow by.
C11_RevenueSplit ==
  \A e \in Calls("accrue") :
    e.accrued =>
      /\ plus(e.revenue.protocolRevenue, e.revenue.supplySideRevenue)
           = e.revenue.periodRevenue
      /\ e.revenue.protocolRevenue =
           div(times(e.revenue.periodRevenue, e.stored.reserveFactor), BI(10000, 0))
      /\ (e.stored.reserveFactor = ZERO_BI =>
            /\ e.revenue.protocolRevenue = ZERO_BD
            /\ e.revenue.supplySideRevenue = e.revenue.periodRevenue)
      /\ Counters(e.after)[1] = plus(Counters(e.before)[1], e.revenue.supplySideRevenue)
      /\ Counters(e.after)[2] = plus(Counters(e.before)[2], e.revenue.protocolRevenue)

\* Revenue was computed on a market whose reserve factor is zero, on top of
\* revenue accrued before.
C11_Witness ==
  \E e \in Calls("accrue") :
    /\ e.accrued
    /\ e.stored.reserveFactor = ZERO_BI
    /\ gt(e.revenue.periodRevenue, ZERO_BD)
    /\ gt(Counters(e.before)[1], ZERO_BD)

\* The accrual of the example: 10^12 units of a 6-decimal token at 1 USD,
\* 5% against 3%, reserve factor 1000, one year elapsed.
YearExample(e) ==
  /\ e.totalBorrow = BI(1, 12)
  /\ tokens[e.stored.inputToken].decimals = 6
  /\ tokens[e.stored.inputToken].lastPriceUSD = BI(1, 0)
  /\ e.variableBorrowRate = BI(5, 25)
  /\ e.liquidityRate = BI(3, 25)
  /\ e.stored.reserveFactor = BI(1000, 0)
  /\ e.timestamp - e.last = 31536000

\* C12: the accrual of the example adds 18000 to the supply-side counter,
\* 2000 to the protocol-side counter and 20000 to the total.
C12_YearExample ==
  \A e \in Calls("accrue") :
    YearExample(e) =>
      /\ e.accrued
      /\ e.revenue.periodRevenue = BI(20000, 0)
      /\ Counters(e.after)[1] = plus(Counters(e.before)[1], BI(18000, 0))
      /\ Counters(e.after)[2] = plus(Counters(e.before)[2], BI(2000, 0))
      /\ Counters(e.after)[3] = plus(Counters(e.before)[3], BI(20000, 0))

\* The accrual of the example ran on counters that already held revenue.
C12_Witness ==
  \E e \in Calls("accrue") :
    /\ YearExample(e)
    /\ gt(Counters(e.before)[3], ZERO_BD)
    /\ gt(Counters(e.after)[3], BI(20000, 0))

\* The position the event of a user handler is about.
EventPosition(event) == <<getTokenId(event.user), getTokenId(event.reserve)>>

\* The field of the position before the step, a position not stored yet
\* holding zero.
PrincipalBefore(id) ==
  IF id \in DOMAIN positions THEN positions[id].principal ELSE ZERO_BI

RealizedBefore(id) ==
  IF id \in DOMAIN positions THEN positions[id].realizedPnL ELSE ZERO_BD

\* max(0, totalDeposited - totalWithdrawn)
NetFloor(p) ==
  IF ge(p.totalDeposited, p.totalWithdrawn)
  THEN minus(p.totalDeposited, p.totalWithdrawn)
  ELSE ZERO_BI

\* C13: no step leaves a negative principal, and a withdrawal sets the
\* principal of its position to zero when the amount exceeds it and to the
\* difference otherwise.
C13_PrincipalFloor ==
  [][\A id \in DOMAIN positions' :
       /\ ge(positions'[id].principal, ZERO_BI)
       /\ (lastOp' = "handleWithdraw" /\ id = EventPosition(lastEvent')) =>
            positions'[id].principal =
              IF gt(lastEvent'.amount, PrincipalBefore(id))
              THEN ZERO_BI
              ELSE minus(PrincipalBefore(id), lastEvent'.amount)]_vars

\* A withdrawal took more than the principal left by earlier deposits.
C13_Witness ==
  /\ lastOp = "handleWithdraw"
  /\ \E id \in DOMAIN positions :
       /\ positions[id].principal = ZERO_BI
       /\ gt(positions[id].totalDeposited, ZERO_BI)
       /\ gt(positions[id].totalWithdrawn, positions[id].totalDeposited)

\* C14 as stated: the principal is max(0, totalDeposited - totalWithdrawn).
C14_PrincipalIsNet ==
  \A id \in DOMAIN positions : positions[id].principal = NetFloor(positions[id])

\* C14: the principal is at least max(0, totalDeposited - totalWithdrawn),
\* and equal to it after a step on a new position or on one where it was
\* equal and the withdrawals did not exceed the deposits.
C14_PrincipalAtLeastNet ==
  [][\A id \in DOMAIN positions' :
       /\ ge(positions'[id].principal, NetFloor(positions'[id]))
       /\ (\/ id \notin DOMAIN positions
           \/ /\ positions[id].principal = NetFloor(positions[id])
              /\ ge(positions[id].totalDeposited, positions[id].totalWithdrawn)) =>
            positions'[id].principal = NetFloor(positions'[id])]_vars

\* A deposit after withdrawals that exceeded the deposits: the principal is
\* above the net.
C14_Witness ==
  /\ lastOp = "handleSupply"
  /\ \E id \in DOMAIN positions :
       /\ gt(positions[id].totalWithdrawn, ZERO_BI)
       /\ gt(positions[id].principal, NetFloor(positions[id]))

\* C15: a withdrawal that brings totalWithdrawn to totalDeposited or above
\* sets realizedPnL of its position to the difference in whole tokens; every
\* other step leaves every realizedPnL as it was.
C15_RealizedPnL ==
  [][\A id \in DOMAIN positions' :
       IF /\ lastOp' = "handleWithdraw"
          /\ id = EventPosition(lastEvent')
          /\ ge(positions'[id].totalWithdrawn, positions'[id].totalDeposited)
       THEN positions'[id].realizedPnL =
              div(minus(positions'[id].totalWithdrawn, positions'[id].totalDeposited),
                  BI(1, tokens'[markets'[positions'[id].market].inputToken].decimals))
       ELSE positions'[id].realizedPnL = RealizedBefore(id)]_vars

\* A second withdrawal beyond the deposits replaced a realizedPnL that was
\* already set.
C15_Witness ==
  /\ lastOp = "handleWithdraw"
  /\ \E id \in DOMAIN positions :
       /\ gt(positions[id].totalDeposited, ZERO_BI)
       /\ gt(positions[id].realizedPnL, ZERO_BD)
       /\ gt(minus(positions[id].totalWithdrawn, positions[id].totalDeposited),
             lastEvent.amount)

\* The transaction of the n-th event is of the type and for the tokens given.
EventWas(n, type, tokenAmount) ==
  /\ <<n, 0>> \in DOMAIN transactions
  /\ transactions[<<n, 0>>].type = type
  /\ transactions[<<n, 0>>].amount = BI(tokenAmount, 18)

\* C16: on a new position a deposit of 100 and a withdrawal of 60 leave
\* principal 40, totalDeposited 100, totalWithdrawn 60 and realizedPnL zero; a
\* withdrawal of 50 after them leaves totalWithdrawn 110, principal 0 and
\* realizedPnL 10.
C16_LedgerExample ==
  (EventWas(1, "SUPPLY", 100) /\ EventWas(2, "WITHDRAW", 60)) =>
    /\ steps = 2 =>
         /\ positions[<<"u1", "a">>].principal = BI(40, 18)
         /\ positions[<<"u1", "a">>].totalDeposited = BI(100, 18)
         /\ positions[<<"u1", "a">>].totalWithdrawn = BI(60, 18)
         /\ positions[<<"u1", "a">>].realizedPnL = ZERO_BD
    /\ (steps = 3 /\ EventWas(3, "WITHDRAW", 50)) =>
         /\ positions[<<"u1", "a">>].principal = ZERO_BI
         /\ positions[<<"u1", "a">>].totalDeposited = BI(100, 18)
         /\ positions[<<"u1", "a">>].totalWithdrawn = BI(110, 18)
         /\ positions[<<"u1", "a">>].realizedPnL = BI(10, 0)

\* The three events of the example have run.
C16_Witness ==
  /\ steps = 3
  /\ EventWas(1, "SUPPLY", 100)
  /\ EventWas(2, "WITHDRAW", 60)
  /\ EventWas(3, "WITHDRAW", 50)
  /\ positions[<<"u1", "a">>].realizedPnL = BI(10, 0)

\* The snapshot ids the calls of a handler to the named function worked on.
SnapshotIds(calls, op) ==
  {calls[i].id : i \in {j \in 1..Len(calls) : calls[j].op = op}}

\* Both timestamps lie in one window [k * length, (k + 1) * length).
SameWindow(t1, t2, length) == t1 - (t1 % length) = t2 - (t2 % length)

\* k * length <= t < (k + 1) * length
InBucket(t, k, length) == k * length <= t /\ t < (k + 1) * length

\* Two user events in a row on one market.
SameMarketTwice ==
  /\ lastOp \in UserHandlers
  /\ lastOp' \in UserHandlers
  /\ lastEvent.reserve = lastEvent'.reserve

\* C17 as stated: two events of a market less than a bucket length apart
\* update the same hourly, respectively daily, snapshot.
C17_CloseSameBucket ==
  [][SameMarketTwice =>
       /\ Abs(lastEvent'.timestamp - lastEvent.timestamp) < 3600 =>
            SnapshotIds(trace', "updateHourlySnapshot")
              = SnapshotIds(trace, "updateHourlySnapshot")
       /\ Abs(lastEvent'.timestamp - lastEvent.timestamp) < 86400 =>
            SnapshotIds(trace', "updateDailySnapshot")
              = SnapshotIds(trace, "updateDailySnapshot")]_vars

\* C17: two events of a market update the same hourly, respectively daily,
\* snapshot exactly when their timestamps lie in the same window of 3600,
\* respectively 86400, seconds starting at a multiple of that length.
C17_SameWindowSameBucket ==
  [][SameMarketTwice =>
       /\ SnapshotIds(trace', "updateHourlySnapshot") \subseteq DOMAIN hourlySnapshots'
       /\ SnapshotIds(trace', "updateDailySnapshot") \subseteq DOMAIN dailySnapshots'
       /\ SameWindow(lastEvent.timestamp, lastEvent'.timestamp, 3600) <=>
            SnapshotIds(trace', "updateHourlySnapshot")
              = SnapshotIds(trace, "updateHourlySnapshot")
       /\ SameWindow(lastEvent.timestamp, lastEvent'.timestamp, 86400) <=>
            SnapshotIds(trace', "updateDailySnapshot")
              = SnapshotIds(trace, "updateDailySnapshot")]_vars

\* Two events of a market at different seconds of one hour went to one
\* hourly and one daily snapshot.
C17_Witness ==
  /\ steps = 2
  /\ {<<1, 0>>, <<2, 0>>} \subseteq DOMAIN transactions
  /\ transactions[<<1, 0>>].market = transactions[<<2, 0>>].market
  /\ {transactions[<<1, 0>>].timestamp, transactions[<<2, 0>>].timestamp}
       = {86400, 89999}
  /\ Cardinality(DOMAIN hourlySnapshots) = 1
  /\ Cardinality(DOMAIN dailySnapshots) = 1

\* C18: the snapshots an event updates are keyed by its market and by the
\* bucket k with k * length <= timestamp < (k + 1) * length, so a timestamp
\* k * length is in bucket k and k * length - 1 in bucket k - 1.
C18_BucketIds ==
  lastOp \in UserHandlers =>
    /\ Cardinality(Calls("updateHourlySnapshot")) = 1
    /\ Cardinality(Calls("updateDailySnapshot")) = 1
    /\ \A e \in Calls("updateHourlySnapshot") :
         /\ e.id[1] = getTokenId(lastEvent.reserve)
         /\ InBucket(lastEvent.timestamp, e.id[2], 3600)
         /\ lastEvent.timestamp % 3600 = 0 => e.id[2] * 3600 = lastEvent.timestamp
         /\ (lastEvent.timestamp + 1) % 3600 = 0 =>
              (e.id[2] + 1) * 3600 = lastEvent.timestamp + 1
         /\ e.id \in DOMAIN hourlySnapshots
         /\ hourlySnapshots[e.id].hourId = e.id[2]
    /\ \A e \in Calls("updateDailySnapshot") :
         /\ e.id[1] = getTokenId(lastEvent.reserve)
         /\ InBucket(lastEvent.timestamp, e.id[2], 86400)
         /\ lastEvent.timestamp % 86400 = 0 => e.id[2] * 86400 = lastEvent.timestamp
         /\ (lastEvent.timestamp + 1) % 86400 = 0 =>
              (e.id[2] + 1) * 86400 = lastEvent.timestamp + 1
         /\ e.id \in DOMAIN dailySnapshots
         /\ dailySnapshots[e.id].dayId = e.id[2]

\* An event at the first second of day 1 and hour 24, after one at the last
\* second of day 0 and hour 23.
C18_Witness ==
  /\ lastOp \in UserHandlers
  /\ steps = 2
  /\ lastEvent.timestamp = 86400
  /\ <<1, 0>> \in DOMAIN transactions
  /\ transactions[<<1, 0>>].timestamp = 86399
  /\ <<getTokenId(lastEvent.reserve), 24>> \in DOMAIN hourlySnapshots
  /\ <<getTokenId(lastEvent.reserve), 1>> \in DOMAIN dailySnapshots

\* Supply, withdraw, borrow and repay volume of a snapshot, zero for one that
\* is not stored.
HourlyVolumes(snapshots, id) ==
  IF id \in DOMAIN snapshots
  THEN <<snapshots[id].hourlySupplyVolume, snapshots[id].hourlyWithdrawVolume,
         snapshots[id].hourlyBorrowVolume, snapshots[id].hourlyRepayVolume>>
  ELSE <<ZERO_BI, ZERO_BI, ZERO_BI, ZERO_BI>>

DailyVolumes(snapshots, id) ==
  IF id \in DOMAIN snapshots
  THEN <<snapshots[id].dailySupplyVolume, snapshots[id].dailyWithdrawVolume,
         snapshots[id].dailyBorrowVolume, snapshots[id].dailyRepayVolume>>
  ELSE <<ZERO_BI, ZERO_BI, ZERO_BI, ZERO_BI>>

\* The volumes with the amount added to the counter of the handler.
VolumesPlus(volumes, op, amount) ==
  [i \in 1..4 |->
     IF <<"handleSupply", "handleWithdraw", "handleBorrow", "handleRepay">>[i] = op
     THEN plus(volumes[i], amount)
     ELSE volumes[i]]

\* C19: a user event adds its amount to the volume counter of its type in
\* the hourly and in the daily snapshot of its market and bucket, counters
\* of a new snapshot starting at zero, and leaves the other three counters
\* and every other snapshot as they were.
C19_VolumeFrame ==
  [][lastOp' \in UserHandlers =>
       /\ \A id \in SnapshotIds(trace', "updateHourlySnapshot") :
            /\ DOMAIN hourlySnapshots' = DOMAIN hourlySnapshots \cup {id}
            /\ HourlyVolumes(hourlySnapshots', id) =
                 VolumesPlus(HourlyVolumes(hourlySnapshots, id), lastOp',
                             lastEvent'.amount)
            /\ \A other \in DOMAIN hourlySnapshots \ {id} :
                 hourlySnapshots'[other] = hourlySnapshots[other]
       /\ \A id \in SnapshotIds(trace', "updateDailySnapshot") :
            /\ DOMAIN dailySnapshots' = DOMAIN dailySnapshots \cup {id}
            /\ DailyVolumes(dailySnapshots', id) =
                 VolumesPlus(DailyVolumes(dailySnapshots, id), lastOp',
                             lastEvent'.amount)
            /\ \A other \in DOMAIN dailySnapshots \ {id} :
                 dailySnapshots'[other] = dailySnapshots[other]]_vars

\* A withdrawal was added to a snapshot that held a supply.
C19_Witness ==
  /\ lastOp = "handleWithdraw"
  /\ \E id \in DOMAIN hourlySnapshots :
       /\ gt(hourlySnapshots[id].hourlySupplyVolume, ZERO_BI)
       /\ hourlySnapshots[id].hourlyWithdrawVolume = lastEvent.amount
  /\ \E id \in DOMAIN dailySnapshots :
       /\ gt(dailySnapshots[id].dailySupplyVolume, ZERO_BI)
       /\ dailySnapshots[id].dailyWithdrawVolume = lastEvent.amount

\* dailyActiveUsers of a snapshot, zero for one that is not stored.
ActiveUsersBefore(id) ==
  IF id \in DOMAIN dailySnapshots THEN dailySnapshots[id].dailyActiveUsers ELSE 0

\* C20: a user event adds one to dailyActiveUsers of its daily snapshot and
\* stores the record of (day, user) when there was none, adds nothing when
\* there was one, and changes no record already stored.
C20_ActiveUsers ==
  [][lastOp' \in UserHandlers =>
       /\ \A key \in DOMAIN dailyActiveUsers :
            /\ key \in DOMAIN dailyActiveUsers'
            /\ dailyActiveUsers'[key] = dailyActiveUsers[key]
       /\ \A e \in {trace'[i] : i \in {j \in 1..Len(trace') :
                                         trace'[j].op = "updateDailySnapshot"}} :
            /\ e.activeUser[2] = getTokenId(lastEvent'.user)
            /\ InBucket(lastEvent'.timestamp, e.activeUser[1], 86400)
            /\ DOMAIN dailyActiveUsers' = DOMAIN dailyActiveUsers \cup {e.activeUser}
            /\ dailyActiveUsers'[e.activeUser].day = e.activeUser[1]
            /\ dailyActiveUsers'[e.activeUser].user = e.activeUser[2]
            /\ dailySnapshots'[e.id].dailyActiveUsers =
                 IF e.activeUser \in DOMAIN dailyActiveUsers
                 THEN ActiveUsersBefore(e.id)
                 ELSE ActiveUsersBefore(e.id) + 1]_vars

\* Two events of one user on one market and day: the user is counted once.
C20_Witness ==
  /\ steps = 2
  /\ {<<1, 0>>, <<2, 0>>} \subseteq DOMAIN transactions
  /\ transactions[<<1, 0>>].from = transactions[<<2, 0>>].from
  /\ transactions[<<1, 0>>].market = transactions[<<2, 0>>].market
  /\ transactions[<<1, 0>>].timestamp >= 86400
  /\ transactions[<<2, 0>>].timestamp >= 86400
  /\ Cardinality(DOMAIN dailyActiveUsers) = 1
  /\ \A id \in DOMAIN dailySnapshots : dailySnapshots[id].dailyActiveUsers = 1

\* Total, protocol-side and supply-side projected revenue of a day from the
\* stored rates, borrow, reserve factor and price of a market: the spread
\* times the borrow in USD over 365, nothing without a positive spread.
DayProjection(market, token) ==
  IF /\ gt(market.totalBorrow, ZERO_BI)
     /\ gt(market.variableBorrowRate, market.liquidityRate)
  THEN LET total == div(times(div(minus(market.variableBorrowRate,
                                        market.liquidityRate), BI(1, 27)),
                              times(div(market.totalBorrow, BI(1, token.decimals)),
                                    token.lastPriceUSD)),
                        BI(365, 0))
           protocolSide == div(times(total, market.reserveFactor), BI(10000, 0))
       IN <<total, protocolSide, minus(total, protocolSide)>>
  ELSE <<ZERO_BD, ZERO_BD, ZERO_BD>>

\* C21: after a user event the daily snapshot it updated holds the
\* projection computed from what the market and its token hold at that
\* event, whatever the snapshot held before.
C21_ProjectionOverwritten ==
  lastOp \in UserHandlers =>
    \A id \in SnapshotIds(trace, "updateDailySnapshot") :
      <<dailySnapshots[id].dailyTotalRevenueUSD,
        dailySnapshots[id].dailyProtocolSideRevenueUSD,
        dailySnapshots[id].dailySupplySideRevenueUSD>>
        = DayProjection(markets[id[1]], tokens[markets[id[1]].inputToken])

\* Totals, liquidity and utilization of a market.
MarketTotals(market) ==
  <<market.totalSupply, market.totalBorrow, market.availableLiquidity,
    market.utilizationRate>>

MarketRates(market) ==
  <<market.liquidityRate, market.variableBorrowRate, market.stableBorrowRate>>

\* The markets the handler that ran last worked on.
Touched(op, event, env) ==
  IF op = "handleBlock" THEN Discovered(env) ELSE {getTokenId(event.reserve)}

\* C22: a handler whose reserve-data call reverts leaves the totals, the
\* available liquidity, the utilization and the rates of every stored market
\* as they were, a rate update writing the rates of its event; it still
\* stamps the markets it worked on.
C22_StaleOnFailedSync ==
  [][\A id \in DOMAIN markets :
       lastEnv'.reserveData[markets[id].asset].reverted =>
         /\ MarketTotals(markets'[id]) = MarketTotals(markets[id])
         /\ MarketRates(markets'[id]) =
              IF lastOp' = "handleReserveDataUpdated" /\ id = getTokenId(lastEvent'.reserve)
              THEN <<lastEvent'.liquidityRate, lastEvent'.variableBorrowRate,
                     lastEvent'.stableBorrowRate>>
              ELSE MarketRates(markets[id])
         /\ id \in Touched(lastOp', lastEvent', lastEnv') =>
              markets'[id].lastUpdateTimestamp = lastEvent'.timestamp]_vars

\* A tick whose discovery answered and whose reserve-data calls reverted
\* went on with the totals stored before.
C22_Witness ==
  /\ lastOp = "handleBlock"
  /\ ~lastEnv.reservesList.reverted
  /\ lastEnv.reserveData["a"].reverted
  /\ "a" \in DOMAIN markets
  /\ markets["a"].totalBorrow = BI(2, 18)
  /\ markets["a"].lastUpdateTimestamp = 93600

\* C23: of every stored market the available liquidity is the total supply
\* less the total borrow, and the utilization is a hundred times the borrow
\* over the supply, zero without supply.
C23_MarketDerivedFields ==
  \A id \in DOMAIN markets :
    /\ plus(markets[id].availableLiquidity, markets[id].totalBorrow)
         = markets[id].totalSupply
    /\ IF gt(markets[id].totalSupply, ZERO_BI)
       THEN times(markets[id].utilizationRate, markets[id].totalSupply)
              = times(markets[id].totalBorrow, BI(100, 0))
       ELSE markets[id].utilizationRate = ZERO_BD

\* A market resynced twice, to 4 borrowed of 5 supplied, and one created
\* while its reserve-data call reverted.
C23_Witness ==
  /\ steps = 2
  /\ \E id \in DOMAIN markets :
       /\ markets[id].totalSupply = BI(5, 18)
       /\ markets[id].availableLiquidity = BI(1, 18)
       /\ markets[id].utilizationRate = BI(80, 0)
  /\ \E id \in DOMAIN markets : markets[id].totalSupply = ZERO_BI

\* Supplied, variable-debt and stable-debt balance and collateral flag of a
\* position, those of a new position for one that is not stored.
Balances(positionStore, id) ==
  IF id \in DOMAIN positionStore
  THEN <<positionStore[id].aTokenBalance, positionStore[id].variableDebtBalance,
         positionStore[id].stableDebtBalance, positionStore[id].isCollateral>>
  ELSE <<ZERO_BI, ZERO_BI, ZERO_BI, FALSE>>

\* totalDeposited and totalWithdrawn of a position.
Cumulated(positionStore, id) ==
  IF id \in DOMAIN positionStore
  THEN <<positionStore[id].totalDeposited, positionStore[id].totalWithdrawn>>
  ELSE <<ZERO_BI, ZERO_BI>>

\* What the per-user query of env answers for the reserve.
Queried(env, reserve) ==
  <<env.userReserveData[reserve].value.currentATokenBalance,
    env.userReserveData[reserve].value.currentVariableDebt,
    env.userReserveData[reserve].value.currentStableDebt,
    env.userReserveData[reserve].value.usageAsCollateralEnabled>>

\* C24: a user event leaves the balances and the collateral flag of its
\* position as the per-user query answered them, or as they were when the
\* query reverted; either way it stamps the position and adds its amount to
\* totalDeposited (supply) or totalWithdrawn (withdraw).
C24_BalancesFromQuery ==
  [][lastOp' \in UserHandlers =>
       /\ Balances(positions', EventPosition(lastEvent')) =
            IF lastEnv'.userReserveData[lastEvent'.reserve].reverted
            THEN Balances(positions, EventPosition(lastEvent'))
            ELSE Queried(lastEnv', lastEvent'.reserve)
       /\ positions'[EventPosition(lastEvent')].lastUpdateTimestamp
            = lastEvent'.timestamp
       /\ Cumulated(positions', EventPosition(lastEvent')) =
            <<IF lastOp' = "handleSupply"
              THEN plus(Cumulated(positions, EventPosition(lastEvent'))[1],
                        lastEvent'.amount)
              ELSE Cumulated(positions, EventPosition(lastEvent'))[1],
              IF lastOp' = "handleWithdraw"
              THEN plus(Cumulated(positions, EventPosition(lastEvent'))[2],
                        lastEvent'.amount)
              ELSE Cumulated(positions, EventPosition(lastEvent'))[2]>>]_vars

\* A borrow overwrote the balances an earlier supply had stored.
C24_Witness ==
  /\ lastOp = "handleBorrow"
  /\ ~lastEnv.userReserveData["a"].reverted
  /\ <<"u1", "a">> \in DOMAIN positions
  /\ positions[<<"u1", "a">>].totalDeposited = BI(1, 18)
  /\ Balances(positions, <<"u1", "a">>) = <<BI(1, 18), BI(1, 18), ZERO_BI, FALSE>>

\* The last call of the handler that ran last.
LastCall == IF trace = <<>> THEN "none" ELSE trace[Len(trace)].op

\* The totals of a market: none, or those of the chain in one of its states.
KnownTotals(market) ==
  {MarketTotals(updateMarketState(World(phase, <<>>, {}), market)) : phase \in {1, 2}}
    \cup {<<ZERO_BI, ZERO_BI, ZERO_BI, ZERO_BD>>}

\* The prices of a token: none, or the oracle's in one of the chain's states.
KnownPrices(address) ==
  {getTokenPriceUSD(World(phase, <<>>, {}), address) : phase \in {1, 2}}
    \cup {ZERO_BD}

\* The handler that ran last reached its last statement and left the
\* entities of its event stored.
HandlerCompleted ==
  /\ PROTOCOL_ID \in DOMAIN protocol
  /\ lastOp \in UserHandlers =>
       /\ LastCall = "updateDailySnapshot"
       /\ getTokenId(lastEvent.reserve) \in DOMAIN markets
       /\ getTokenId(lastEvent.user) \in DOMAIN users
       /\ EventPosition(lastEvent) \in DOMAIN positions
       /\ <<lastEvent.hash, lastEvent.logIndex>> \in DOMAIN transactions
  /\ lastOp = "handleReserveDataUpdated" =>
       /\ LastCall = "recalculateProtocolTotals"
       /\ getTokenId(lastEvent.reserve) \in DOMAIN markets
  /\ lastOp = "handleBlock" =>
       IF lastEnv.reservesList.reverted
       THEN trace = <<>>
       ELSE /\ LastCall = "recalculateProtocolTotals"
            /\ Discovered(lastEnv) \subseteq DOMAIN markets

\* Every field read from the chain holds what the chain answers, what it
\* answered before, or nothing; the decimals of a token may be any of the
\* given defaults besides, and the USD amount of the event computed with them.
ChainFields(defaultDecimals) ==
  /\ lastOp \in UserHandlers =>
       /\ transactions[<<lastEvent.hash, lastEvent.logIndex>>].amountUSD
            \in {ZERO_BD} \cup
                {times(div(lastEvent.amount, BI(1, decimals)),
                       getTokenPriceUSD(World(2, <<>>, {}), lastEvent.reserve)) :
                   decimals \in {ChainDecimals[lastEvent.reserve]} \cup defaultDecimals}
       /\ Balances(positions, EventPosition(lastEvent))
            \in {<<ZERO_BI, ZERO_BI, ZERO_BI, FALSE>>,
                 Queried(World(1, <<>>, {}), lastEvent.reserve),
                 Queried(World(2, <<>>, {}), lastEvent.reserve)}
  /\ \A id \in DOMAIN markets :
       /\ MarketTotals(markets[id]) \in KnownTotals(markets[id])
       /\ markets[id].reserveFactor
            \in {ZERO_BI, ConfigurationOf(markets[id].asset).reserveFactor}
       /\ markets[id].aToken \in {ZERO_ADDRESS, ATokenOf[markets[id].asset]}
       /\ {markets[id].inputToken, markets[id].outputToken} \subseteq DOMAIN tokens
  /\ \A id \in DOMAIN tokens :
       /\ tokens[id].decimals \in {ChainDecimals[id]} \cup defaultDecimals
       /\ tokens[id].symbol \in {"unknown", id}
       /\ tokens[id].name \in {"unknown", id}
       /\ tokens[id].totalSupply \in {ZERO_BI, BI(9, ChainDecimals[id])}
       /\ tokens[id].lastPriceUSD \in KnownPrices(id)

\* C25 as stated: whichever external calls revert, a handler runs to its
\* end, and a call that reverted shows only in fields that are stale or
\* zero.
C25_StaleOrZero ==
  lastOp # "none" => (HandlerCompleted /\ ChainFields({0}))

\* C25: whichever external calls revert and whatever the store holds, a
\* handler runs to its end, and a call that reverted shows only in fields
\* that are stale, zero or the default (18 decimals) and in the USD amount
\* computed with that default.
C25_FailuresAbsorbed ==
  lastOp # "none" => (HandlerCompleted /\ ChainFields({18}))

\* A supply to a reserve not stored yet ran while the token calls reverted:
\* the token of 17 decimals is stored with 18 and one token at 3 USD is
\* valued 0.3 USD.
C25_Witness ==
  /\ lastOp = "handleSupply"
  /\ lastEnv = World(2, <<"a", "b">>, {"ERC20"})
  /\ DOMAIN markets = {"b"}
  /\ ChainDecimals["b"] = 17
  /\ tokens["b"].decimals = 18
  /\ tokens["b"].symbol = "unknown"
  /\ lastEvent.amount = BI(1, 17)
  /\ transactions[<<lastEvent.hash, lastEvent.logIndex>>].amountUSD = BI(3, -1)
  /\ Cardinality(DOMAIN dailySnapshots) = 1

\* The transaction type a handler records.
TypeOf(op) ==
  CASE op = "handleSupply" -> "SUPPLY"
    [] op = "handleWithdraw" -> "WITHDRAW"
    [] op = "handleBorrow" -> "BORROW"
    [] op = "handleRepay" -> "REPAY"

\* C26: a user event stores one new transaction under its hash and log
\* index, of the handler's type and with the event's amount, valued zero
\* when the price call reverts; a rate update or a tick stores none; no step
\* changes or removes a transaction stored before.
C26_TransactionsAppendOnly ==
  [][/\ \A key \in DOMAIN transactions :
          /\ key \in DOMAIN transactions'
          /\ transactions'[key] = transactions[key]
     /\ IF lastOp' \in UserHandlers
        THEN /\ <<lastEvent'.hash, lastEvent'.logIndex>> \notin DOMAIN transactions
             /\ DOMAIN transactions' =
                  DOMAIN transactions \cup {<<lastEvent'.hash, lastEvent'.logIndex>>}
             /\ transactions'[<<lastEvent'.hash, lastEvent'.logIndex>>].type
                  = TypeOf(lastOp')
             /\ transactions'[<<lastEvent'.hash, lastEvent'.logIndex>>].amount
                  = lastEvent'.amount
             /\ transactions'[<<lastEvent'.hash, lastEvent'.logIndex>>].from
                  = getTokenId(lastEvent'.user)
             /\ transactions'[<<lastEvent'.hash, lastEvent'.logIndex>>].market
                  = getTokenId(lastEvent'.reserve)
             /\ lastEnv'.assetPrice[lastEvent'.reserve].reverted =>
                  transactions'[<<lastEvent'.hash, lastEvent'.logIndex>>].amountUSD
                    = ZERO_BD
        ELSE DOMAIN transactions' = DOMAIN transactions]_vars

\* A withdrawal during which every call reverted was recorded after a
\* supply that was valued.
C26_Witness ==
  /\ lastOp = "handleWithdraw"
  /\ lastEnv = World(1, <<"a", "b">>, QueryKinds)
  /\ DOMAIN transactions = {<<1, 0>>, <<2, 0>>}
  /\ transactions[<<1, 0>>].type = "SUPPLY"
  /\ gt(transactions[<<1, 0>>].amountUSD, ZERO_BD)
  /\ transactions[<<2, 0>>].type = "WITHDRAW"
  /\ transactions[<<2, 0>>].amountUSD = ZERO_BD

\* C27: a market stored by a step has the timestamp of the step's event as
\* its lastRevenueCalculationTimestamp, and the accruals of that step for it
\* compute no revenue and leave the counters of the protocol as they find
\* them.
C27_NewMarketNoRevenue ==
  [][\A id \in DOMAIN markets' \ DOMAIN markets :
       /\ markets'[id].lastRevenueCalculationTimestamp = lastEvent'.timestamp
       /\ \A i \in 1..Len(trace') :
            (trace'[i].op = "accrue" /\ trace'[i].market = id) =>
              /\ ~trace'[i].accrued
              /\ Counters(trace'[i].after) = Counters(trace'[i].before)]_vars

\* A tick stored a market with borrow and a positive spread, after an
\* earlier event, and accrued nothing for it.
C27_Witness ==
  /\ lastOp = "handleBlock"
  /\ steps = 2
  /\ \E e \in Calls("accrue") :
       /\ ~e.accrued
       /\ e.last = lastEvent.timestamp
       /\ gt(e.totalBorrow, ZERO_BI)
       /\ gt(e.variableBorrowRate, e.liquidityRate)
       /\ PROTOCOL_ID \in DOMAIN e.before
       /\ \E c \in Calls("createMarket") : c.market = e.market

\* C28: of every stored market the supply APY is a hundred times the
\* liquidity rate over 10^27 and the variable borrow APY a hundred times the
\* variable borrow rate over 10^27.
C28_APYsFollowRates ==
  \A id \in DOMAIN markets :
    /\ times(markets[id].supplyAPY, BI(1, 27))
         = times(markets[id].liquidityRate, BI(100, 0))
    /\ times(markets[id].variableBorrowAPY, BI(1, 27))
         = times(markets[id].variableBorrowRate, BI(100, 0))

\* The users with a supply, withdraw, borrow or repay event stored for the
\* market and day of a daily snapshot.
UsersOfDay(id) ==
  {transactions[t].from :
     t \in {x \in DOMAIN transactions :
              /\ transactions[x].market = id[1]
              /\ getDayId(transactions[x].timestamp) = id[2]}}

\* C29: dailyActiveUsers of every daily snapshot is the number of distinct
\* users with a user event on the snapshot's market on the snapshot's day,
\* whatever those users did on other markets that day.
C29_ActiveUsersPerMarket ==
  \A id \in DOMAIN dailySnapshots :
    dailySnapshots[id].dailyActiveUsers = Cardinality(UsersOfDay(id))

\* C30: a time tick whose market discovery fails changes no market, token,
\* user, position, transaction, snapshot or active-user record, leaves the
\* protocol's totals and cumulative revenue as they were (all zero when the
\* tick creates the protocol), and calls no accrual, resync or aggregation.
C30_FailedDiscoveryNoChange ==
  [][(lastOp' = "handleBlock" /\ lastEnv'.reservesList.reverted) =>
       /\ markets' = markets
       /\ tokens' = tokens
       /\ users' = users
       /\ positions' = positions
       /\ transactions' = transactions
       /\ hourlySnapshots' = hourlySnapshots
       /\ dailySnapshots' = dailySnapshots
       /\ dailyActiveUsers' = dailyActiveUsers
       /\ trace' = <<>>
       /\ DOMAIN protocol' = {PROTOCOL_ID}
       /\ IF PROTOCOL_ID \in DOMAIN protocol
          THEN protocol' = protocol
          ELSE \A field \in DOMAIN protocol'[PROTOCOL_ID] :
                 protocol'[PROTOCOL_ID][field] = ZERO_BD]_vars

\* A tick with a failed discovery after an event that left a market with a
\* borrow total, rates and an hour since its last accrual, and a protocol.
C30_Witness ==
  /\ lastOp = "handleBlock"
  /\ lastEnv.reservesList.reverted
  /\ ~lastEnv.reserveData["a"].reverted
  /\ PROTOCOL_ID \in DOMAIN protocol
  /\ \E id \in DOMAIN markets :
       /\ gt(markets[id].totalBorrow, ZERO_BI)
       /\ gt(markets[id].variableBorrowRate, markets[id].liquidityRate)
       /\ markets[id].lastRevenueCalculationTimestamp < lastEvent.timestamp
       /\ markets[id].liquidityRate # lastEnv.reserveData[id].value.liquidityRate

\* The store after the last tick is handled once more, with the same block
\* and the same answers of the chain.
TickAgain == handleBlock(Begin, lastEnv, lastEvent)

\* C31: handling a tick a second time, with the same timestamp and block
\* number and the same answers of the chain, leaves every entity as the first
\* handling left it, the protocol's cumulative revenue and every market's
\* accrual timestamp among them.
C31_TickIdempotent ==
  lastOp = "handleBlock" =>
    /\ TickAgain.protocol = protocol
    /\ TickAgain.markets = markets
    /\ TickAgain.tokens = tokens
    /\ TickAgain.users = users
    /\ TickAgain.positions = positions
    /\ TickAgain.transactions = transactions
    /\ TickAgain.hourlySnapshots = hourlySnapshots
    /\ TickAgain.dailySnapshots = dailySnapshots
    /\ TickAgain.dailyActiveUsers = dailyActiveUsers

\* A tick that accrued revenue on a market: time had passed since the
\* market's last accrual and the protocol's revenue grew.
C31_Witness ==
  /\ lastOp = "handleBlock"
  /\ ~lastEnv.reservesList.reverted
  /\ \E c \in Calls("accrue") :
       /\ c.accrued
       /\ gt(c.revenue.periodRevenue, ZERO_BD)
       /\ c.last < c.timestamp
       /\ markets[c.market].lastRevenueCalculationTimestamp = lastEvent.timestamp

\* The sum of the amounts of the stored events of a market and type whose
\* timestamp lies in the bucket, a bucket being length seconds long.
VolumeOf(market, type, bucket, length) ==
  SumOver([t \in DOMAIN transactions |-> transactions[t].amount],
          {t \in DOMAIN transactions :
             /\ transactions[t].market = market
             /\ transactions[t].type = type
             /\ InBucket(transactions[t].timestamp, bucket, length)})

VolumesOf(id, length) ==
  <<VolumeOf(id[1], "SUPPLY", id[2], length),
    VolumeOf(id[1], "WITHDRAW", id[2], length),
    VolumeOf(id[1], "BORROW", id[2], length),
    VolumeOf(id[1], "REPAY", id[2], length)>>

\* C32: each of the four volume counters of every hourly and daily snapshot
\* is the sum of the amounts of the handled events of that type on the
\* snapshot's market with a timestamp in the snapshot's bucket, and every
\* handled event has its hourly and its daily snapshot, in whatever order the
\* events came.
C32_VolumesAreSums ==
  /\ \A id \in DOMAIN hourlySnapshots :
       HourlyVolumes(hourlySnapshots, id) = VolumesOf(id, 3600)
  /\ \A id \in DOMAIN dailySnapshots :
       DailyVolumes(dailySnapshots, id) = VolumesOf(id, 86400)
  /\ \A t \in DOMAIN transactions :
       /\ <<transactions[t].market, transactions[t].timestamp \div 3600>>
            \in DOMAIN hourlySnapshots
       /\ <<transactions[t].market, transactions[t].timestamp \div 86400>>
            \in DOMAIN dailySnapshots

\* Two events of one type on one market and day, the second in the hour
\* before the hour of the first: the daily counter holds both amounts, the
\* two hourly counters one each.
C32_Witness ==
  /\ {<<1, 0>>, <<2, 0>>} \subseteq DOMAIN transactions
  /\ transactions[<<1, 0>>].market = transactions[<<2, 0>>].market
  /\ transactions[<<1, 0>>].type = transactions[<<2, 0>>].type
  /\ transactions[<<1, 0>>].timestamp = 90000
  /\ transactions[<<2, 0>>].timestamp = 86400
  /\ lastEvent.timestamp = 86400
  /\ Cardinality(DOMAIN hourlySnapshots) = 2
  /\ Cardinality(DOMAIN dailySnapshots) = 1

IsAccrual(e) == e.op = "accrue"

\* The accruals of a handler hand the revenue counters on: the first starts
\* from the counters before the handler, each next one from those the one
\* before it left, and the last leaves the counters the handler ends with.
CountersThrough(before, accruals, after) ==
  IF accruals = <<>> THEN after = before
  ELSE /\ Counters(accruals[1].before) = before
       /\ \A i \in 1..(Len(accruals) - 1) :
            Counters(accruals[i + 1].before) = Counters(accruals[i].after)
       /\ Counters(accruals[Len(accruals)].after) = after

\* C33: with prices not below zero and reserve factors of 0 to 10000 basis
\* points, no handler lowers the protocol's cumulative supply-side revenue,
\* cumulative protocol-side revenue or total revenue, and the three change
\* inside accruals only: nothing between, before or after the accruals of a
\* handler changes them.
C33_RevenueMonotone ==
  [][/\ \A i \in 1..3 : ge(Counters(protocol')[i], Counters(protocol)[i])
     /\ CountersThrough(Counters(protocol), SelectSeq(trace', IsAccrual),
                        Counters(protocol'))
     /\ \A i \in 1..Len(trace') :
          IsAccrual(trace'[i]) =>
            \A k \in 1..3 :
              ge(Counters(trace'[i].after)[k], Counters(trace'[i].before)[k])]_vars

\* A handler accrued revenue on a market with a reserve factor above zero
\* and aggregated the protocol's totals after it.
C33_Witness ==
  /\ \E i \in 1..Len(trace) :
       /\ IsAccrual(trace[i])
       /\ trace[i].accrued
       /\ gt(trace[i].revenue.protocolRevenue, ZERO_BD)
       /\ gt(trace[i].revenue.supplySideRevenue, ZERO_BD)
       /\ \E j \in (i + 1)..Len(trace) : trace[j].op = "recalculateProtocolTotals"
  /\ gt(Counters(protocol)[1], ZERO_BD)
  /\ gt(Counters(protocol)[2], ZERO_BD)
  /\ gt(Counters(protocol)[3], ZERO_BD)

\* The stored transactions whose actor is the user.
TransactionsOf(userId) ==
  {t \in DOMAIN transactions : transactions[t].from = userId}

TransactionCount(userStore, id) ==
  IF id \in DOMAIN userStore THEN userStore[id].transactionCount ELSE 0

\* C34: events having distinct transaction keys, every stored user's
\* transactionCount is the number of stored transactions of that user; a
\* supply, withdraw, borrow or repay event adds one to the count of its actor
\* and leaves every other user's count as it was; a rate update or a tick
\* changes no user's count.
C34_TransactionCount ==
  [][/\ \A id \in DOMAIN users' :
          users'[id].transactionCount = Cardinality(TransactionsOf(id)')
     /\ \A id \in DOMAIN users' :
          TransactionCount(users', id) =
            IF lastOp' \in UserHandlers /\ id = getTokenId(lastEvent'.user)
            THEN TransactionCount(users, id) + 1
            ELSE TransactionCount(users, id)
     /\ lastOp' \notin UserHandlers => DOMAIN users' = DOMAIN users]_vars

\* Two users with one event each: each count is one.
C34_Witness ==
  /\ steps = 2
  /\ lastOp \in UserHandlers
  /\ Cardinality(DOMAIN users) = 2
  /\ \A id \in DOMAIN users : users[id].transactionCount = 1

====
